---- MODULE Spec2Model ----
(***************************************************************************)
(* Model of the bias / hate-speech analysis backend:                       *)
(*   src/backend/llm_analyzer.py     (LLMBiasAnalyzer)                     *)
(*   src/backend/hate_speech_api.py  (FastAPI endpoints and helpers)       *)
(*                                                                         *)
(* Strings are sequences of characters.  A character is a one-letter       *)
(* string, except the two code points that have no ASCII spelling:         *)
(*   "U+0130"  LATIN CAPITAL LETTER I WITH DOT ABOVE, whose str.lower()    *)
(*             is the two code points "i" and "U+0307";                    *)
(*   "U+0307"  COMBINING DOT ABOVE (not a \w character, not whitespace).   *)
(* Offsets are 0-based as in Python; NOT_FOUND is the pair (-1, -1).       *)
(***************************************************************************)
EXTENDS Integers, Sequences, FiniteSets, TLC

VARIABLES
    original_text,   \* the document handed to the localizer / parser
    text_span,       \* the phrase handed to _find_text_span
    located,         \* what _find_text_span returned (or NoResult)
    response,        \* the generative backend's answer handed to _parse_response
    bias_spans,      \* the list of BiasSpan returned by _parse_response
    input_text,      \* input_data.text of an analysis request
    sentences,       \* what nltk.sent_tokenize returned for the request
    clauses,         \* the units the hate-speech pipeline analyzes
    total_clauses,   \* len(clauses) as the summary sees it
    hate_speech_count,  \* len(hate_speech_clauses)
    summary,         \* the summary dict of the hate-speech response
    services_loaded, \* analyzer, hate_speech_tokenizer and hate_speech_model are set
    endpoint,        \* the endpoint of the last request handled
    confidence_threshold,  \* input_data.confidence_threshold of that request
    outcomes,        \* what the external model calls of that request did
    calls,           \* the segmentation and model calls that request made, in order
    http_response,   \* what the client received
    in_flight,       \* the local state of each hate-speech request being handled
    hash_order,      \* the iteration order of a set of categories in this process
    runs,            \* the outputs of the runs of the pipeline on one input
    database,        \* the committed users and analyses tables and their id sequences
    db_requests,     \* the local state of each account / storage request being handled
    pc               \* position of the modelled call

locateVars == <<text_span, located>>
parseVars == <<response, bias_spans>>
segmentVars == <<input_text, sentences, clauses>>
summaryVars == <<total_clauses, hate_speech_count, summary>>
dbVars == <<database, db_requests>>
runVars == <<in_flight, hash_order, runs, dbVars>>
apiVars == <<services_loaded, endpoint, confidence_threshold, outcomes, calls,
             http_response, runVars>>
vars == <<original_text, text_span, located, response, bias_spans,
          input_text, sentences, clauses,
          total_clauses, hate_speech_count, summary,
          services_loaded, endpoint, confidence_threshold, outcomes, calls,
          http_response, in_flight, hash_order, runs, database, db_requests, pc>>

(***************************************************************************)
(* Bounds of the model.                                                    *)
(***************************************************************************)
MaxDocLen == 2
MaxSpanLen == 2
MaxInstances == 2
MaxWords == 4
MaxClauses == 10
MaxApiWords == 6
MaxRequests == 2
MaxTextWords == 3
MaxFindings == 3
MaxUserIds == 2
MaxAnalysisIds == 2

\* TextInput.confidence_threshold defaults to 0.6; probabilities and
\* thresholds are counted in hundredths.
DefaultThreshold == 60

(***************************************************************************)
(* Characters and Python string primitives.                                *)
(***************************************************************************)
Chars == {"a", "A", "b", " ", "U+0130"}

\* str.isspace() for one character.
IsSpace(c) == c = " "

\* A character matched by the regular expression \w (str, Unicode mode):
\* every character of the model is a letter except these.
IsWordChar(c) == c \notin {" ", ",", ";", ".", "U+0307"}

\* str.lower() of one character.
LowerChar(c) ==
    CASE c = "A" -> <<"a">>
      [] c = "U+0130" -> <<"i", "U+0307">>
      [] OTHER -> <<c>>

RECURSIVE Lower(_)
\* str.lower()
Lower(s) == IF s = <<>> THEN <<>> ELSE LowerChar(Head(s)) \o Lower(Tail(s))

Min(a, b) == IF a <= b THEN a ELSE b
Max(a, b) == IF a >= b THEN a ELSE b

\* Python slice s[i:j] for i, j >= 0 (indices beyond the end are clamped).
Slice(s, i, j) ==
    LET lo == Min(i, Len(s))
        hi == Min(j, Len(s))
    IN  IF lo >= hi THEN <<>> ELSE SubSeq(s, lo + 1, hi)

\* needle occurs in hay at 0-based offset i.
OccursAt(hay, needle, i) ==
    /\ i + Len(needle) <= Len(hay)
    /\ \A k \in 1..Len(needle) : hay[i + k] = needle[k]

\* Mutant of Find: the highest offset (str.rfind) instead of the lowest.
FindLast(hay, needle) ==
    LET hits == {i \in 0..Len(hay) : OccursAt(hay, needle, i)}
    IN  IF hits = {} THEN -1 ELSE CHOOSE i \in hits : \A j \in hits : i >= j

\* str.find(): the lowest offset of needle in hay, or -1.
Find(hay, needle) ==
    LET hits == {i \in 0..Len(hay) : OccursAt(hay, needle, i)}
    IN  IF hits = {} THEN -1 ELSE CHOOSE i \in hits : \A j \in hits : i <= j

\* str.strip()
RECURSIVE LStrip(_)
LStrip(s) == IF s # <<>> /\ IsSpace(Head(s)) THEN LStrip(Tail(s)) ELSE s
RECURSIVE RStrip(_)
RStrip(s) ==
    IF s # <<>> /\ IsSpace(s[Len(s)]) THEN RStrip(SubSeq(s, 1, Len(s) - 1)) ELSE s
Strip(s) == RStrip(LStrip(s))

\* re.finditer(r'\w+', s): the maximal runs of word characters, left to right,
\* each as [start |-> 0-based offset, word |-> the run].
RECURSIVE WordScan(_, _, _)
WordScan(s, i, acc) ==
    IF i >= Len(s) THEN acc
    ELSE IF ~IsWordChar(s[i + 1]) THEN WordScan(s, i + 1, acc)
    ELSE LET ends == {e \in (i + 1)..Len(s) :
                         /\ \A k \in (i + 1)..e : IsWordChar(s[k])
                         /\ (e = Len(s) \/ ~IsWordChar(s[e + 1]))}
             e == CHOOSE x \in ends : TRUE
         IN  WordScan(s, e, Append(acc, [start |-> i, word |-> SubSeq(s, i + 1, e)]))
WordMatches(s) == WordScan(s, 0, <<>>)

\* list.index(): 0-based position of the first element equal to w, or -1
\* where Python raises ValueError.
ListIndex(words, w) ==
    LET hits == {k \in 1..Len(words) : words[k] = w}
    IN  IF hits = {} THEN -1 ELSE (CHOOSE k \in hits : \A j \in hits : k <= j) - 1

(***************************************************************************)
(* LLMBiasAnalyzer._find_text_span                                         *)
(***************************************************************************)
NOT_FOUND == [start |-> -1, end |-> -1, strategy |-> "none"]

\* The inner while loop: number of equal characters from s1[i], s2[j] on.
RECURSIVE MatchLength(_, _, _, _, _)
MatchLength(s1, s2, i, j, length) ==
    IF /\ i + length < Len(s1)
       /\ j + length < Len(s2)
       /\ s1[i + length + 1] = s2[j + length + 1]
    THEN MatchLength(s1, s2, i, j, length + 1)
    ELSE length

\* Mutant of LcsLoop: a later run of equal length replaces the earlier one
\* (>= where the code compares with >).
RECURSIVE LcsLoopLastWins(_, _, _, _)
LcsLoopLastWins(s1, s2, k, best) ==
    IF k >= Len(s1) * Len(s2) THEN best
    ELSE LET i == k \div Len(s2)
             j == k % Len(s2)
             length == MatchLength(s1, s2, i, j, 0)
         IN  LcsLoopLastWins(s1, s2, k + 1,
                             IF length >= best[3] THEN <<i, j, length>> ELSE best)

\* The two nested for loops, flattened: step k visits i = k \div len(s2),
\* j = k % len(s2); best is (best_s1_start, best_s2_start, longest_length).
RECURSIVE LcsLoop(_, _, _, _)
LcsLoop(s1, s2, k, best) ==
    IF k >= Len(s1) * Len(s2) THEN best
    ELSE LET i == k \div Len(s2)
             j == k % Len(s2)
             length == MatchLength(s1, s2, i, j, 0)
         IN  LcsLoop(s1, s2, k + 1,
                     IF length > best[3] THEN <<i, j, length>> ELSE best)

\* longest_common_substring(s1, s2) -> (start_in_s1, start_in_s2, length)
longest_common_substring(s1, s2) ==
    LcsLoop(Lower(s1), Lower(s2), 0, <<0, 0, 0>>)

\* The acceptance threshold of the fuzzy strategy.
FuzzyThreshold(span) == Min(4, Len(span) \div 2)

\* Strategy 4.
FuzzyMatch(text, span) ==
    LET lcs == longest_common_substring(text, span)
    IN  IF lcs[3] >= FuzzyThreshold(span)
        THEN [start |-> lcs[1], end |-> lcs[1] + lcs[3], strategy |-> "fuzzy"]
        ELSE NOT_FOUND

\* Strategy 3 once the first word was found among the document's words.
TokenAnchored(text, span, span_words, first_word_index) ==
    LET lowered == Lower(text)
        word_starts == [k \in 1..Len(WordMatches(lowered)) |->
                            WordMatches(lowered)[k].start]
        start_char == word_starts[first_word_index + 1]
        last_word == span_words[Len(span_words)]
        remaining_text == Slice(lowered, start_char, Len(lowered))
        last_word_pos == Find(remaining_text, last_word)
    IN  IF Len(span_words) > 1 /\ last_word_pos # -1
        THEN [start |-> start_char,
              end |-> start_char + last_word_pos + Len(last_word),
              strategy |-> "token"]
        ELSE [start |-> start_char,
              end |-> Min(start_char + Len(span), Len(text)),
              strategy |-> "token"]

\* Mutant of FindTextSpan: the case-insensitive search is tried before the
\* exact one.
FindTextSpanIcaseFirst(text, span) ==
    IF span = <<>> \/ text = <<>> THEN NOT_FOUND
    ELSE LET exact == Find(text, span)
             icase == Find(Lower(text), Lower(span))
             span_matches == WordMatches(Lower(span))
             span_words == [k \in 1..Len(span_matches) |-> span_matches[k].word]
             text_matches == WordMatches(Lower(text))
             text_words == [k \in 1..Len(text_matches) |-> text_matches[k].word]
             first_word_index == ListIndex(text_words, span_words[1])
         IN  IF icase # -1
             THEN [start |-> icase, end |-> icase + Len(span), strategy |-> "icase"]
             ELSE IF exact # -1
             THEN [start |-> exact, end |-> exact + Len(span), strategy |-> "exact"]
             ELSE IF span_words = <<>> THEN NOT_FOUND
             ELSE IF first_word_index # -1
             THEN TokenAnchored(text, span, span_words, first_word_index)
             ELSE FuzzyMatch(text, span)

\* _find_text_span(original_text, text_span) -> (start, end); the strategy
\* field records which return statement produced the pair.
FindTextSpan(text, span) ==
    IF span = <<>> \/ text = <<>> THEN NOT_FOUND
    ELSE LET exact == Find(text, span)
             icase == Find(Lower(text), Lower(span))
             span_matches == WordMatches(Lower(span))
             span_words == [k \in 1..Len(span_matches) |-> span_matches[k].word]
             text_matches == WordMatches(Lower(text))
             text_words == [k \in 1..Len(text_matches) |-> text_matches[k].word]
             first_word_index == ListIndex(text_words, span_words[1])
         IN  IF exact # -1
             THEN [start |-> exact, end |-> exact + Len(span), strategy |-> "exact"]
             ELSE IF icase # -1
             THEN [start |-> icase, end |-> icase + Len(span), strategy |-> "icase"]
             ELSE IF span_words = <<>> THEN NOT_FOUND
             ELSE IF first_word_index # -1
             THEN TokenAnchored(text, span, span_words, first_word_index)
             ELSE FuzzyMatch(text, span)

(***************************************************************************)
(* LLMBiasAnalyzer._parse_response                                         *)
(*                                                                         *)
(* A response is [kind |-> "malformed"] (json.loads raises) or             *)
(* [kind |-> "json", bias_instances |-> <<instance, ...>>].  An instance   *)
(* is [kind |-> "object", text_span, category] or [kind |-> "not_object"]  *)
(* (a JSON value without .get, on which the loop body raises).             *)
(***************************************************************************)
bias_categories ==
    {"Race / Ethnicity", "Gender / Gender Identity", "Age",
     "Religion / Belief System", "Sexual Orientation", "Socioeconomic Status",
     "Nationality / Immigration Status", "Disability", "Education Level",
     "Political Ideology", "Physical Appearance"}

\* Mutant of ValidCategory: the reported category is kept whatever it is.
ValidCategoryAsReported(category) == category

\* The category validation of the loop body.
ValidCategory(category) ==
    IF category \notin bias_categories THEN "Other" ELSE category

\* Mutant of TextToUse: the label is always the reported phrase.
TextToUseReported(text, span, start_index, end_index) == span

\* The label of the BiasSpan: the document's text at the located range, or
\* the reported phrase when the two differ after strip().lower().
TextToUse(text, span, start_index, end_index) ==
    LET actual_text == Slice(text, start_index, end_index)
    IN  IF Lower(Strip(actual_text)) # Lower(Strip(span))
        THEN span
        ELSE actual_text

\* The BiasSpan built for one located instance.
BiasSpan(text, instance, found) ==
    [text |-> TextToUse(text, instance.text_span, found.start, found.end),
     category |-> ValidCategory(instance.category),
     start_index |-> found.start,
     end_index |-> found.end]

\* The for loop over data['bias_instances'], from instance k on.  raised
\* becomes TRUE when the body raises; the loop stops there.
RECURSIVE ParseLoop(_, _, _, _)
ParseLoop(text, instances, k, acc) ==
    IF k > Len(instances) THEN [raised |-> FALSE, spans |-> acc]
    ELSE IF instances[k].kind # "object" THEN [raised |-> TRUE, spans |-> acc]
    ELSE LET found == FindTextSpan(text, instances[k].text_span)
         IN  IF found.start = -1
             THEN ParseLoop(text, instances, k + 1, acc)
             ELSE ParseLoop(text, instances, k + 1,
                            Append(acc, BiasSpan(text, instances[k], found)))

\* The cleaning of the reply before json.loads (lines 197-201).  A reply
\* inside a Markdown code fence tagged json (fence "json") loses both fence
\* lines; of a reply inside an untagged fence (fence "bare") only the
\* closing fence is removed, and what is left is not JSON.
CleanResponse(resp) ==
    IF resp.kind # "fenced" THEN resp
    ELSE IF resp.fence = "json" THEN resp.inner
    ELSE [kind |-> "malformed"]

\* json.loads and the loop over data['bias_instances'] (lines 203-259).
ParseData(data, text) ==
    IF data.kind # "json" THEN <<>>
    ELSE LET run == ParseLoop(text, data.bias_instances, 1, <<>>)
         IN  IF run.raised THEN <<>> ELSE run.spans

\* _parse_response(response, original_text) -> List[BiasSpan]
ParseResponse(resp, text) == ParseData(CleanResponse(resp), text)

(***************************************************************************)
(* split_text_into_clauses                                                 *)
(***************************************************************************)
\* The ordered list of clause-boundary patterns.  "comma" is ,\s+(?=\w),
\* "semicolon" is ;\s* and "word" is \s+WORD\s+ for the given WORD.
clause_patterns ==
    << [kind |-> "comma", word |-> <<>>],
       [kind |-> "semicolon", word |-> <<>>],
       [kind |-> "word", word |-> <<"a", "n", "d">>],
       [kind |-> "word", word |-> <<"b", "u", "t">>],
       [kind |-> "word", word |-> <<"o", "r">>],
       [kind |-> "word", word |-> <<"b", "e", "c", "a", "u", "s", "e">>],
       [kind |-> "word", word |-> <<"s", "i", "n", "c", "e">>],
       [kind |-> "word", word |-> <<"w", "h", "i", "l", "e">>],
       [kind |-> "word", word |-> <<"w", "h", "e", "n">>],
       [kind |-> "word", word |-> <<"i", "f">>],
       [kind |-> "word", word |-> <<"a", "l", "t", "h", "o", "u", "g", "h">>],
       [kind |-> "word", word |-> <<"h", "o", "w", "e", "v", "e", "r">>],
       [kind |-> "word", word |-> <<"t", "h", "e", "r", "e", "f", "o", "r", "e">>] >>

\* Length of the run of whitespace (\s) that starts at offset p.
RECURSIVE SpaceRun(_, _)
SpaceRun(s, p) ==
    IF p < Len(s) /\ IsSpace(s[p + 1]) THEN 1 + SpaceRun(s, p + 1) ELSE 0

\* End offset of the match of the pattern that starts at offset p, or -1.
\* The quantifiers are greedy and no shorter run of whitespace can match.
MatchEnd(pattern, s, p) ==
    IF p >= Len(s) THEN -1
    ELSE IF pattern.kind = "comma"
    THEN LET run == SpaceRun(s, p + 1)
         IN  IF /\ s[p + 1] = ","
                /\ run >= 1
                /\ p + 1 + run < Len(s)
                /\ IsWordChar(s[p + 1 + run + 1])
             THEN p + 1 + run ELSE -1
    ELSE IF pattern.kind = "semicolon"
    THEN IF s[p + 1] = ";" THEN p + 1 + SpaceRun(s, p + 1) ELSE -1
    ELSE LET lead == SpaceRun(s, p)
             after == p + lead + Len(pattern.word)
             trail == SpaceRun(s, after)
         IN  IF /\ lead >= 1
                /\ OccursAt(s, pattern.word, p + lead)
                /\ trail >= 1
             THEN after + trail ELSE -1

\* re.split(pattern, s): scan from offset p; from is where the current
\* piece starts.
RECURSIVE SplitScan(_, _, _, _, _)
SplitScan(pattern, s, p, from, acc) ==
    IF p >= Len(s) THEN Append(acc, Slice(s, from, Len(s)))
    ELSE LET end == MatchEnd(pattern, s, p)
         IN  IF end # -1
             THEN SplitScan(pattern, s, end, end, Append(acc, Slice(s, from, p)))
             ELSE SplitScan(pattern, s, p + 1, from, acc)
ReSplit(pattern, s) == SplitScan(pattern, s, 0, 0, <<>>)

\* [c.strip() for c in pieces if c.strip()]
RECURSIVE StripNonEmpty(_)
StripNonEmpty(pieces) ==
    IF pieces = <<>> THEN <<>>
    ELSE LET c == Strip(Head(pieces))
         IN  (IF c # <<>> THEN <<c>> ELSE <<>>) \o StripNonEmpty(Tail(pieces))

\* One pass of the inner loop: every clause of the working set is split by
\* the pattern.
RECURSIVE SplitAll(_, _)
SplitAll(pattern, current_clauses) ==
    IF current_clauses = <<>> THEN <<>>
    ELSE StripNonEmpty(ReSplit(pattern, Head(current_clauses)))
             \o SplitAll(pattern, Tail(current_clauses))

\* Mutant of ApplyPatterns: the patterns are taken from the end of the list
\* (the conjunctions before the semicolon and the comma).
RECURSIVE ApplyPatternsLastFirst(_, _)
ApplyPatternsLastFirst(current_clauses, k) ==
    IF k > Len(clause_patterns) THEN current_clauses
    ELSE ApplyPatternsLastFirst(
             SplitAll(clause_patterns[Len(clause_patterns) + 1 - k], current_clauses),
             k + 1)

\* The loop over clause_patterns for one sentence, from pattern k on.
RECURSIVE ApplyPatterns(_, _)
ApplyPatterns(current_clauses, k) ==
    IF k > Len(clause_patterns) THEN current_clauses
    ELSE ApplyPatterns(SplitAll(clause_patterns[k], current_clauses), k + 1)

\* len(clause.split()): the number of whitespace-delimited tokens.
RECURSIVE TokenCount(_)
TokenCount(s) ==
    LET t == LStrip(s)
    IN  IF t = <<>> THEN 0
        ELSE LET first == CHOOSE n \in 1..Len(t) :
                              /\ \A k \in 1..n : ~IsSpace(t[k])
                              /\ (n = Len(t) \/ IsSpace(t[n + 1]))
             IN  1 + TokenCount(SubSeq(t, first + 1, Len(t)))

\* The final list comprehension with the given minimum of tokens.
RECURSIVE KeepLongClauses(_, _)
KeepLongClauses(cs, least) ==
    IF cs = <<>> THEN <<>>
    ELSE (IF TokenCount(Head(cs)) >= least THEN <<Head(cs)>> ELSE <<>>)
             \o KeepLongClauses(Tail(cs), least)

\* The loop over the sentences.
RECURSIVE ClausesOfSentences(_)
ClausesOfSentences(sents) ==
    IF sents = <<>> THEN <<>>
    ELSE ApplyPatterns(<<Head(sents)>>, 1) \o ClausesOfSentences(Tail(sents))

\* Mutant of split_text_into_clauses: fragments of two tokens are kept.
SplitKeepingTwoTokens(sents) == KeepLongClauses(ClausesOfSentences(sents), 2)

\* split_text_into_clauses(text), given sentences = nltk.sent_tokenize(text).
split_text_into_clauses(sents) == KeepLongClauses(ClausesOfSentences(sents), 3)

\* nltk.sent_tokenize is an external capability.  It returns the text cut
\* into consecutive sentences; a cut can only fall after a "." that is
\* followed by whitespace and more text, and the whitespace at a cut is
\* dropped.  Which of these places are cuts is the tokenizer's choice.
SentenceBreaks(text) ==
    {p \in 1..Len(text) :
        /\ text[p] = "."
        /\ SpaceRun(text, p) >= 1
        /\ p + SpaceRun(text, p) < Len(text)}

RECURSIVE SentencesFrom(_, _, _)
SentencesFrom(text, from, cuts) ==
    IF cuts = {} THEN <<Slice(text, from, Len(text))>>
    ELSE LET p == CHOOSE c \in cuts : \A d \in cuts : c <= d
         IN  <<Slice(text, from, p)>>
                 \o SentencesFrom(text, p + SpaceRun(text, p), cuts \ {p})

SentTokenize(text, cuts) ==
    IF text = <<>> THEN <<>> ELSE SentencesFrom(text, 0, cuts)

\* analyze_hate_speech, lines 503-506: the units handed to the classifier.
ClausesToAnalyze(text, sents) ==
    LET found == split_text_into_clauses(sents)
    IN  IF found = <<>> THEN <<text>> ELSE found

(***************************************************************************)
(* analyze_hate_speech: the summary (lines 520-535)                        *)
(***************************************************************************)
\* A fraction num / den (hate_speech_percentage is a float in the code).
Fraction(num, den) == [num |-> num, den |-> den]

\* Mutant of HateSummary: High already at exactly half of the clauses
\* (>= where the code compares with >).
HateSummaryHighAtHalf(total, count, threshold) ==
    [total_clauses_analyzed |-> total,
     hate_speech_clauses_found |-> count,
     hate_speech_percentage |->
         IF total > 0 THEN Fraction(count * 100, total) ELSE Fraction(0, 1),
     confidence_threshold_used |-> threshold,
     overall_assessment |->
         IF count > 0 THEN "Contains hate speech" ELSE "No hate speech detected",
     risk_level |->
         IF 2 * count >= total THEN "High"
         ELSE IF count > 0 THEN "Medium"
         ELSE "Low"]

\* Mutant of HateSummary: the percentage is left as the plain ratio
\* flagged / total, without the factor 100.
HateSummaryAsRatio(total, count, threshold) ==
    [total_clauses_analyzed |-> total,
     hate_speech_clauses_found |-> count,
     hate_speech_percentage |->
         IF total > 0 THEN Fraction(count, total) ELSE Fraction(0, 1),
     confidence_threshold_used |-> threshold,
     overall_assessment |->
         IF count > 0 THEN "Contains hate speech" ELSE "No hate speech detected",
     risk_level |->
         IF 2 * count > total THEN "High"
         ELSE IF count > 0 THEN "Medium"
         ELSE "Low"]

\* The summary dict.  count > total * 0.5 is compared as 2 * count > total.
HateSummary(total, count, threshold) ==
    [total_clauses_analyzed |-> total,
     hate_speech_clauses_found |-> count,
     hate_speech_percentage |->
         IF total > 0 THEN Fraction(count * 100, total) ELSE Fraction(0, 1),
     confidence_threshold_used |-> threshold,
     overall_assessment |->
         IF count > 0 THEN "Contains hate speech" ELSE "No hate speech detected",
     risk_level |->
         IF 2 * count > total THEN "High"
         ELSE IF count > 0 THEN "Medium"
         ELSE "Low"]

(***************************************************************************)
(* LLMBiasAnalyzer._generate_summary and analyze_text                      *)
(***************************************************************************)
\* The categories of the spans, as a set.
CategoriesOf(spans) == {spans[k].category : k \in 1..Len(spans)}

\* The sequences that list every element of S exactly once.
Orderings(S) ==
    {o \in [1..Cardinality(S) -> S] : \A x \in S : \E k \in DOMAIN o : o[k] = x}

\* Mutant of GenerateSummary: two findings already count as High.
GenerateSummaryHighAtTwo(spans, text, order) ==
    LET total_bias_instances == Len(spans)
    IN  [total_bias_instances |-> total_bias_instances,
         categories_detected |-> order,
         overall_assessment |->
             IF total_bias_instances = 0 THEN "No bias detected"
             ELSE IF total_bias_instances <= 1 THEN "Minor bias detected"
             ELSE "Multiple bias instances detected",
         risk_level |->
             IF total_bias_instances = 0 THEN "Low"
             ELSE IF total_bias_instances <= 1 THEN "Medium"
             ELSE "High",
         text_length |-> Len(text),
         bias_density |-> Fraction(total_bias_instances, Max(TokenCount(text), 1))]

\* _generate_summary(bias_spans, text).  categories_detected is
\* list(set(...)), whose order is not determined by the code: order is the
\* one the run produced.
GenerateSummary(spans, text, order) ==
    LET total_bias_instances == Len(spans)
    IN  [total_bias_instances |-> total_bias_instances,
         categories_detected |-> order,
         overall_assessment |->
             IF total_bias_instances = 0 THEN "No bias detected"
             ELSE IF total_bias_instances <= 2 THEN "Minor bias detected"
             ELSE "Multiple bias instances detected",
         risk_level |->
             IF total_bias_instances = 0 THEN "Low"
             ELSE IF total_bias_instances <= 2 THEN "Medium"
             ELSE "High",
         text_length |-> Len(text),
         bias_density |-> Fraction(total_bias_instances, Max(TokenCount(text), 1))]

\* The outcome of a handler: the value it returns, or the exception it
\* raises.
Returns(value) == [raised |-> FALSE, value |-> value]
Raises(message, cause) == [raised |-> TRUE, message |-> message, cause |-> cause]

\* The BiasAnalysisResponse analyze_text returns for the parsed spans.
BiasAnalysisResponse(text, spans, order) ==
    [original_text |-> text,
     bias_spans |-> spans,
     summary |-> GenerateSummary(spans, text, order)]

\* Mutant of AnalyzeText: a reply that is not JSON raises like a failed
\* request.
AnalyzeTextStrict(text, claude, order) ==
    IF Strip(text) = <<>>
    THEN [result |-> Returns([original_text |-> text,
                              bias_spans |-> <<>>,
                              summary |-> [total_bias_instances |-> 0,
                                           categories_detected |-> <<>>,
                                           overall_assessment |-> "No bias detected",
                                           risk_level |-> "Low"]]),
          calls |-> <<>>]
    ELSE IF claude.kind = "raise" \/ CleanResponse(claude).kind = "malformed"
    THEN [result |-> Raises("Bias analysis failed", "Claude API call failed"),
          calls |-> <<"claude">>]
    ELSE [result |-> Returns(BiasAnalysisResponse(text, ParseResponse(claude, text),
                                                  order)),
          calls |-> <<"claude">>]

\* analyze_text(text).  claude is what _make_claude_request did: a response
\* or [kind |-> "raise"].
AnalyzeText(text, claude, order) ==
    IF Strip(text) = <<>>
    THEN [result |-> Returns([original_text |-> text,
                              bias_spans |-> <<>>,
                              summary |-> [total_bias_instances |-> 0,
                                           categories_detected |-> <<>>,
                                           overall_assessment |-> "No bias detected",
                                           risk_level |-> "Low"]]),
          calls |-> <<>>]
    ELSE IF claude.kind = "raise"
    THEN [result |-> Raises("Bias analysis failed", "Claude API call failed"),
          calls |-> <<"claude">>]
    ELSE [result |-> Returns(BiasAnalysisResponse(text, ParseResponse(claude, text),
                                                  order)),
          calls |-> <<"claude">>]

(***************************************************************************)
(* The endpoints /analyze and /analyze-hate-speech                         *)
(***************************************************************************)
HttpError(status_code, detail, cause) ==
    [status_code |-> status_code, detail |-> detail, cause |-> cause]
HttpOk(body) == [status_code |-> 200, body |-> body]

\* What analyze_text_for_bias makes of the outcome of analyzer.analyze_text:
\* the result is returned, an exception becomes a 500.
BiasHttpResponse(run) ==
    [response |-> IF run.result.raised
                  THEN HttpError(500, "Bias analysis failed", run.result.message)
                  ELSE HttpOk(run.result.value),
     calls |-> run.calls]

\* analyze_text_for_bias(input_data).  The HTTPException(400) raised inside
\* the try block is caught by its except Exception clause.
AnalyzeTextForBias(loaded, input, claude, order) ==
    IF ~loaded
    THEN [response |-> HttpError(500, "Bias analyzer not initialized", ""),
          calls |-> <<>>]
    ELSE IF Strip(input) = <<>>
    THEN [response |-> HttpError(500, "Bias analysis failed", "Text cannot be empty"),
          calls |-> <<>>]
    ELSE BiasHttpResponse(AnalyzeText(Strip(input), claude, order))

\* The first sentence of generate_hate_speech_justification (the keyword
\* scan that may add "Potentially targets: ..." is display text only).
Justification(is_hate_speech, confidence) ==
    IF ~is_hate_speech
    THEN IF confidence > 90 THEN "neutral or positive" ELSE "not hate speech"
    ELSE IF confidence > 80 THEN "High confidence"
    ELSE IF confidence > 60 THEN "Moderate confidence"
    ELSE "Low confidence"

\* analyze_clause_for_hate_speech(clause, confidence_threshold).  outcome is
\* what the classifier did: [kind |-> "raise"] or [kind |-> "scores",
\* hate |-> p], the softmax probability of class 1 in hundredths (class 0
\* has 100 - p; argmax returns class 0 on a tie).
AnalyzeClause(loaded, clause, threshold, outcome) ==
    IF ~loaded
    THEN [clause |-> clause, is_hate_speech |-> FALSE, confidence |-> 0,
          hate_speech_probability |-> 0,
          justification |-> "Hate speech model not loaded"]
    ELSE IF outcome.kind = "raise"
    THEN [clause |-> clause, is_hate_speech |-> FALSE, confidence |-> 0,
          hate_speech_probability |-> 0,
          justification |-> "Error during analysis"]
    ELSE LET hate_speech_probability == outcome.hate
             predicted_class == IF hate_speech_probability > 100 - hate_speech_probability
                                THEN 1 ELSE 0
             confidence == IF predicted_class = 1 THEN hate_speech_probability
                           ELSE 100 - hate_speech_probability
             is_hate_speech == predicted_class = 1
                                   /\ hate_speech_probability >= threshold
         IN  [clause |-> clause, is_hate_speech |-> is_hate_speech,
              confidence |-> confidence,
              hate_speech_probability |-> hate_speech_probability,
              justification |-> Justification(is_hate_speech, confidence)]

\* Mutant of FlaggedClauses: each flagged clause is put in front of the ones
\* found before it.
RECURSIVE FlaggedClausesNewestFirst(_, _, _, _, _)
FlaggedClausesNewestFirst(loaded, units, threshold, results, k) ==
    IF k > Len(units) THEN <<>>
    ELSE LET analysis == AnalyzeClause(loaded, units[k], threshold, results[k])
         IN  FlaggedClausesNewestFirst(loaded, units, threshold, results, k + 1)
                 \o (IF analysis.is_hate_speech
                     THEN <<[text |-> analysis.clause,
                             confidence |-> analysis.confidence,
                             justification |-> analysis.justification]>>
                     ELSE <<>>)

\* The loop over the clauses: the entries appended to hate_speech_clauses.
RECURSIVE FlaggedClauses(_, _, _, _, _)
FlaggedClauses(loaded, units, threshold, results, k) ==
    IF k > Len(units) THEN <<>>
    ELSE LET analysis == AnalyzeClause(loaded, units[k], threshold, results[k])
         IN  (IF analysis.is_hate_speech
              THEN <<[text |-> analysis.clause,
                      confidence |-> analysis.confidence,
                      justification |-> analysis.justification]>>
              ELSE <<>>)
                 \o FlaggedClauses(loaded, units, threshold, results, k + 1)

\* Mutant of AnalyzeHateSpeech: an exception of the classifier is not caught
\* per clause but ends the request.
AnalyzeHateSpeechAbortOnRaise(loaded, input, threshold, sents, results) ==
    IF ~loaded
    THEN [response |-> HttpError(500, "Hate speech model not initialized", ""),
          calls |-> <<>>, clauses |-> <<>>]
    ELSE LET text == Strip(input)
             units == ClausesToAnalyze(text, sents)
             hate_speech_clauses == FlaggedClauses(loaded, units, threshold, results, 1)
         IN  IF text = <<>>
             THEN [response |-> HttpError(500, "Hate speech analysis failed",
                                          "Text cannot be empty"),
                   calls |-> <<>>, clauses |-> <<>>]
             ELSE IF \E k \in 1..Len(units) : results[k].kind = "raise"
             THEN [response |-> HttpError(500, "Hate speech analysis failed",
                                          "classifier"),
                   calls |-> <<"split_text_into_clauses", "classifier">>,
                   clauses |-> units]
             ELSE [response |->
                       HttpOk([hate_speech_detected |-> Len(hate_speech_clauses) > 0,
                               hate_speech_clauses |-> hate_speech_clauses,
                               summary |-> HateSummary(Len(units),
                                                       Len(hate_speech_clauses),
                                                       threshold)]),
                   calls |-> <<"split_text_into_clauses">>
                                 \o [k \in 1..Len(units) |-> "classifier"],
                   clauses |-> units]

\* Mutant of AnalyzeHateSpeech: the blank-text check is missing.
AnalyzeHateSpeechUnchecked(loaded, input, threshold, sents, results) ==
    IF ~loaded
    THEN [response |-> HttpError(500, "Hate speech model not initialized", ""),
          calls |-> <<>>, clauses |-> <<>>]
    ELSE LET text == Strip(input)
             units == ClausesToAnalyze(text, sents)
             hate_speech_clauses == FlaggedClauses(loaded, units, threshold, results, 1)
         IN  [response |->
                  HttpOk([hate_speech_detected |-> Len(hate_speech_clauses) > 0,
                          hate_speech_clauses |-> hate_speech_clauses,
                          summary |-> HateSummary(Len(units), Len(hate_speech_clauses),
                                                  threshold)]),
              calls |-> <<"split_text_into_clauses">>
                            \o [k \in 1..Len(units) |-> "classifier"],
              clauses |-> units]

\* analyze_hate_speech(input_data), given sents = nltk.sent_tokenize(text)
\* and results[k] = what the classifier does on the k-th clause.
AnalyzeHateSpeech(loaded, input, threshold, sents, results) ==
    IF ~loaded
    THEN [response |-> HttpError(500, "Hate speech model not initialized", ""),
          calls |-> <<>>, clauses |-> <<>>]
    ELSE LET text == Strip(input)
             units == ClausesToAnalyze(text, sents)
             hate_speech_clauses == FlaggedClauses(loaded, units, threshold, results, 1)
         IN  IF text = <<>>
             THEN [response |-> HttpError(500, "Hate speech analysis failed",
                                          "Text cannot be empty"),
                   calls |-> <<>>, clauses |-> <<>>]
             ELSE [response |->
                       HttpOk([hate_speech_detected |-> Len(hate_speech_clauses) > 0,
                               hate_speech_clauses |-> hate_speech_clauses,
                               summary |-> HateSummary(Len(units),
                                                       Len(hate_speech_clauses),
                                                       threshold)]),
                   calls |-> <<"split_text_into_clauses">>
                                 \o [k \in 1..Len(units) |-> "classifier"],
                   clauses |-> units]

(***************************************************************************)
(* Inputs.                                                                 *)
(***************************************************************************)
RECURSIVE StringsUpTo(_)
StringsUpTo(n) ==
    IF n = 0 THEN {<<>>}
    ELSE LET shorter == StringsUpTo(n - 1)
         IN  shorter \cup {Append(s, c) : s \in shorter, c \in Chars}

Documents == StringsUpTo(MaxDocLen)
Phrases == StringsUpTo(MaxSpanLen)

NoResult == [start |-> -2, end |-> -2, strategy |-> "pending"]
NoResponse == [kind |-> "none"]
NoSummary == [risk_level |-> "pending"]
NoHttpResponse == [status_code |-> 0]

\* No request has been handled.
\* The tables as create_user_table and create_analyses_table leave them
\* in a new database: no rows, the SERIAL sequences not yet used.
EmptyDatabase ==
    [users |-> {}, analyses |-> {}, users_id_seq |-> 0, analyses_id_seq |-> 0]

NoRequest ==
    /\ database = EmptyDatabase
    /\ db_requests = <<>>
    /\ endpoint = "none"
    /\ confidence_threshold = 0
    /\ outcomes = <<>>
    /\ calls = <<>>
    /\ http_response = NoHttpResponse
    /\ in_flight = <<>>
    /\ hash_order = <<>>
    /\ runs = <<>>

\* Categories a backend may report: one of the taxonomy, one outside it.
ReportedCategories == {"Age", "Ageism"}

Instances ==
    [kind : {"object"}, text_span : Phrases, category : ReportedCategories]
        \cup {[kind |-> "not_object"]}

RECURSIVE ListsUpTo(_, _)
ListsUpTo(S, n) ==
    IF n = 0 THEN {<<>>}
    ELSE LET shorter == ListsUpTo(S, n - 1)
         IN  shorter \cup {Append(l, x) : l \in shorter, x \in S}

\* Request texts: words joined by separators, optionally padded with
\* whitespace, and the two blank texts.
TextWords == {<<"a">>, <<"a", "n", "d">>}
TextSeparators == {<<" ">>, <<",", " ">>, <<";">>, <<".", " ">>}
Pads == {<<>>, <<" ">>}

RECURSIVE BodiesUpTo(_)
BodiesUpTo(n) ==
    IF n <= 1 THEN TextWords
    ELSE LET shorter == BodiesUpTo(n - 1)
         IN  shorter \cup {b \o sep \o w :
                              b \in shorter, sep \in TextSeparators, w \in TextWords}

InputTexts ==
    {<<>>, <<" ">>}
        \cup {l \o b \o r : l \in Pads, b \in BodiesUpTo(MaxWords), r \in Pads}

Responses ==
    {[kind |-> "malformed"]}
        \cup {[kind |-> "json", bias_instances |-> l] :
                 l \in ListsUpTo(Instances, MaxInstances)}

\* Texts posted to the endpoints, with clauses long enough to be analyzed
\* separately.
ApiWords == {<<"a">>}
ApiSeparators == {<<" ">>, <<",", " ">>}

RECURSIVE ApiBodiesUpTo(_)
ApiBodiesUpTo(n) ==
    IF n <= 1 THEN ApiWords
    ELSE LET shorter == ApiBodiesUpTo(n - 1)
         IN  shorter \cup {b \o sep \o w :
                              b \in shorter, sep \in ApiSeparators, w \in ApiWords}

ApiTexts == {<<>>, <<" ">>, <<" ", "a", " ">>} \cup ApiBodiesUpTo(MaxApiWords)

\* Texts posted to /analyze, whose handler does not split them: half as long.
BiasTexts == {<<>>, <<" ">>, <<" ", "a", " ">>} \cup ApiBodiesUpTo(MaxApiWords \div 2)

\* confidence_threshold values of a request, in hundredths.
Thresholds == {10, DefaultThreshold, 80}

\* What the classifier does on one clause.
ClassifierOutcomes ==
    {[kind |-> "raise"]}
        \cup {[kind |-> "scores", hate |-> p] : p \in {20, 50, 70, 90}}

\* What the Claude request does: it raises, or returns a reply that is not
\* JSON, a JSON reply, or a short JSON reply inside a fence.
ApiPhrases == {<<"a">>, <<"b", "b">>}
ApiCategories == ReportedCategories \cup {""}
ApiInstances ==
    [kind : {"object"}, text_span : ApiPhrases, category : ApiCategories]
        \cup {[kind |-> "not_object"]}
JsonReplies(n) ==
    {[kind |-> "json", bias_instances |-> l] : l \in ListsUpTo(ApiInstances, n)}
ClaudeOutcomes ==
    {[kind |-> "raise"], [kind |-> "malformed"]}
        \cup JsonReplies(MaxInstances)
        \cup [kind : {"fenced"}, fence : {"json", "bare"}, inner : JsonReplies(1)]

(***************************************************************************)
(* SpecLocate: one call of _find_text_span on arbitrary bounded inputs.    *)
(***************************************************************************)
InitLocate ==
    /\ original_text \in Documents
    /\ text_span \in Phrases
    /\ located = NoResult
    /\ response = NoResponse
    /\ bias_spans = <<>>
    /\ input_text = <<>>
    /\ sentences = <<>>
    /\ clauses = <<>>
    /\ total_clauses = 0
    /\ hate_speech_count = 0
    /\ summary = NoSummary
    /\ services_loaded = TRUE
    /\ NoRequest
    /\ pc = "call"

CallFindTextSpan ==
    /\ pc = "call"
    /\ located' = FindTextSpan(original_text, text_span)
    /\ pc' = "returned"
    /\ UNCHANGED <<original_text, text_span, parseVars, segmentVars, summaryVars,
                   apiVars>>

NextLocate == CallFindTextSpan

SpecLocate == InitLocate /\ [][NextLocate]_vars

\* Documents and phrases made of whole words separated by one space, for
\* the token-anchored strategy: the words contain each other, so a word of
\* the phrase can occur inside a word of the document.
LocateWords == {<<"a">>, <<"b">>, <<"a", "b">>, <<"b", "a">>}

RECURSIVE WordedTexts(_)
WordedTexts(n) ==
    IF n = 0 THEN {}
    ELSE IF n = 1 THEN LocateWords
    ELSE LET shorter == WordedTexts(n - 1)
         IN  shorter \cup {s \o <<" ">> \o w : s \in shorter, w \in LocateWords}

InitLocateWords ==
    /\ original_text \in WordedTexts(MaxTextWords)
    /\ text_span \in WordedTexts(MaxTextWords)
    /\ located = NoResult
    /\ response = NoResponse
    /\ bias_spans = <<>>
    /\ input_text = <<>>
    /\ sentences = <<>>
    /\ clauses = <<>>
    /\ total_clauses = 0
    /\ hate_speech_count = 0
    /\ summary = NoSummary
    /\ services_loaded = TRUE
    /\ NoRequest
    /\ pc = "call"

SpecLocateWords == InitLocateWords /\ [][NextLocate]_vars

(***************************************************************************)
(* analyze_text from a received reply on: _parse_response, then            *)
(* _generate_summary over the spans it emitted.                            *)
(***************************************************************************)
ReplyTexts == {<<"a">>, <<"a", " ", "a">>, <<"b">>}
\* Phrases found verbatim, found ignoring case, found by their first word
\* only, and found up to trailing whitespace.
ReplyPhrases == {<<"a">>, <<"A">>, <<"a", " ", "b">>, <<"a", " ">>}
ReplyInstances ==
    [kind : {"object"}, text_span : ReplyPhrases, category : {"Age", ""}]
Replies ==
    {[kind |-> "json", bias_instances |-> l] :
        l \in ListsUpTo(ReplyInstances, MaxFindings)}

InitAnalyzeReply ==
    /\ original_text \in ReplyTexts
    /\ response \in Replies
    /\ bias_spans = <<>>
    /\ summary = NoSummary
    /\ text_span = <<>>
    /\ located = NoResult
    /\ input_text = <<>>
    /\ sentences = <<>>
    /\ clauses = <<>>
    /\ total_clauses = 0
    /\ hate_speech_count = 0
    /\ services_loaded = TRUE
    /\ NoRequest
    /\ pc = "call"

ParseAndSummarize ==
    /\ pc = "call"
    /\ \E spans \in {ParseResponse(response, original_text)} :
           \E order \in Orderings(CategoriesOf(spans)) :
               /\ bias_spans' = spans
               /\ summary' = GenerateSummary(spans, original_text, order)
    /\ pc' = "summarized"
    /\ UNCHANGED <<original_text, response, locateVars, segmentVars,
                   total_clauses, hate_speech_count, apiVars>>

NextAnalyzeReply == ParseAndSummarize

SpecAnalyzeReply == InitAnalyzeReply /\ [][NextAnalyzeReply]_vars

(***************************************************************************)
(* SpecParse: one call of _parse_response on a bounded document and        *)
(* backend response.                                                       *)
(***************************************************************************)
InitParse ==
    /\ original_text \in Documents
    /\ response \in Responses
    /\ bias_spans = <<>>
    /\ text_span = <<>>
    /\ located = NoResult
    /\ input_text = <<>>
    /\ sentences = <<>>
    /\ clauses = <<>>
    /\ total_clauses = 0
    /\ hate_speech_count = 0
    /\ summary = NoSummary
    /\ services_loaded = TRUE
    /\ NoRequest
    /\ pc = "call"

CallParseResponse ==
    /\ pc = "call"
    /\ bias_spans' = ParseResponse(response, original_text)
    /\ pc' = "returned"
    /\ UNCHANGED <<original_text, response, locateVars, segmentVars, summaryVars,
                   apiVars>>

NextParse == CallParseResponse

SpecParse == InitParse /\ [][NextParse]_vars

(***************************************************************************)
(* SpecSegment: the segmentation step of analyze_hate_speech (lines         *)
(* 496-506) on a bounded request text: trim, reject a blank text, split    *)
(* into clauses, fall back to the whole text.                              *)
(***************************************************************************)
InitSegment ==
    /\ input_text \in InputTexts
    /\ sentences = <<>>
    /\ clauses = <<>>
    /\ original_text = <<>>
    /\ text_span = <<>>
    /\ located = NoResult
    /\ response = NoResponse
    /\ bias_spans = <<>>
    /\ total_clauses = 0
    /\ hate_speech_count = 0
    /\ summary = NoSummary
    /\ services_loaded = TRUE
    /\ NoRequest
    /\ pc = "call"

Segment ==
    /\ pc = "call"
    /\ LET text == Strip(input_text)
       IN  IF text = <<>>
           THEN /\ pc' = "rejected"
                /\ UNCHANGED <<sentences, clauses>>
           ELSE \E cuts \in SUBSET SentenceBreaks(text) :
                    /\ sentences' = SentTokenize(text, cuts)
                    /\ clauses' = ClausesToAnalyze(text, SentTokenize(text, cuts))
                    /\ pc' = "segmented"
    /\ UNCHANGED <<input_text, original_text, locateVars, parseVars, summaryVars,
                   apiVars>>

NextSegment == Segment

SpecSegment == InitSegment /\ [][NextSegment]_vars

(***************************************************************************)
(* SpecSummary: the summary of analyze_hate_speech for every number of     *)
(* analyzed clauses up to MaxClauses and every number of flagged ones.     *)
(***************************************************************************)
InitSummary ==
    /\ total_clauses \in 1..MaxClauses
    /\ hate_speech_count \in 0..MaxClauses
    /\ hate_speech_count <= total_clauses
    /\ summary = NoSummary
    /\ input_text = <<>>
    /\ sentences = <<>>
    /\ clauses = <<>>
    /\ original_text = <<>>
    /\ text_span = <<>>
    /\ located = NoResult
    /\ response = NoResponse
    /\ bias_spans = <<>>
    /\ services_loaded = TRUE
    /\ NoRequest
    /\ pc = "call"

Summarize ==
    /\ pc = "call"
    /\ summary' = HateSummary(total_clauses, hate_speech_count, DefaultThreshold)
    /\ pc' = "summarized"
    /\ UNCHANGED <<total_clauses, hate_speech_count, original_text,
                   locateVars, parseVars, segmentVars, apiVars>>

NextSummary == Summarize

SpecSummary == InitSummary /\ [][NextSummary]_vars

(***************************************************************************)
(* SpecApi: the server.  The globals are None at import; startup_event     *)
(* sets them, after which requests to /analyze and /analyze-hate-speech    *)
(* are served, each handler running from request to response.  The state  *)
(* holds the request being answered and what became of it, until the       *)
(* server waits for the next one.                                          *)
(***************************************************************************)
InitApi ==
    /\ services_loaded = FALSE
    /\ NoRequest
    /\ input_text = <<>>
    /\ sentences = <<>>
    /\ clauses = <<>>
    /\ original_text = <<>>
    /\ text_span = <<>>
    /\ located = NoResult
    /\ response = NoResponse
    /\ bias_spans = <<>>
    /\ total_clauses = 0
    /\ hate_speech_count = 0
    /\ summary = NoSummary
    /\ pc = "startup"

StartupEvent ==
    /\ pc = "startup"
    /\ services_loaded' = TRUE
    /\ pc' = "serving"
    /\ UNCHANGED <<endpoint, confidence_threshold, outcomes, calls, http_response,
                   original_text, locateVars, parseVars, segmentVars, summaryVars,
                   runVars>>

PostAnalyze ==
    /\ pc = "serving"
    /\ \E text \in BiasTexts, threshold \in {DefaultThreshold}, claude \in ClaudeOutcomes :
         \E order \in Orderings(IF claude.kind = "raise" THEN {}
                                 ELSE CategoriesOf(ParseResponse(claude, Strip(text)))) :
             \E handled \in {AnalyzeTextForBias(services_loaded, text, claude, order)} :
                 /\ endpoint' = "/analyze"
                 /\ input_text' = text
                 /\ confidence_threshold' = threshold
                 /\ outcomes' = <<claude>>
                 /\ calls' = handled.calls
                 /\ http_response' = handled.response
    /\ sentences' = <<>>
    /\ clauses' = <<>>
    /\ pc' = "responded"
    /\ UNCHANGED <<services_loaded, original_text, locateVars, parseVars,
                   summaryVars, runVars>>

PostAnalyzeHateSpeech ==
    /\ pc = "serving"
    /\ \E text \in ApiTexts, threshold \in Thresholds :
         \E cuts \in SUBSET SentenceBreaks(Strip(text)) :
             \E sents \in {SentTokenize(Strip(text), cuts)} :
                 \E units \in {ClausesToAnalyze(Strip(text), sents)} :
                     \E results \in [1..Len(units) -> ClassifierOutcomes] :
                         \E handled \in {AnalyzeHateSpeech(services_loaded, text,
                                                            threshold, sents, results)} :
                             /\ endpoint' = "/analyze-hate-speech"
                             /\ input_text' = text
                             /\ confidence_threshold' = threshold
                             /\ outcomes' = [k \in 1..Len(handled.clauses) |-> results[k]]
                             /\ calls' = handled.calls
                             /\ http_response' = handled.response
                             /\ sentences' = IF handled.clauses = <<>> THEN <<>> ELSE sents
                             /\ clauses' = handled.clauses
    /\ pc' = "responded"
    /\ UNCHANGED <<services_loaded, original_text, locateVars, parseVars,
                   summaryVars, runVars>>

\* The response has been sent; the globals stay as they are.
AwaitRequest ==
    /\ pc = "responded"
    /\ pc' = "serving"
    /\ endpoint' = "none"
    /\ confidence_threshold' = 0
    /\ outcomes' = <<>>
    /\ calls' = <<>>
    /\ http_response' = NoHttpResponse
    /\ input_text' = <<>>
    /\ sentences' = <<>>
    /\ clauses' = <<>>
    /\ UNCHANGED <<services_loaded, original_text, locateVars, parseVars,
                   summaryVars, runVars>>

NextApi == StartupEvent \/ PostAnalyze \/ PostAnalyzeHateSpeech \/ AwaitRequest

SpecApi == InitApi /\ [][NextApi]_vars

(***************************************************************************)
(* SpecConcurrent: several requests to /analyze-hate-speech in the server  *)
(* at once.  Each handler has its own locals (text, confidence_threshold,  *)
(* clauses, hate_speech_clauses); the globals are shared.  A handler is    *)
(* split at its loop iterations, and the handlers interleave freely at     *)
(* these points: every schedule of the server is among the interleavings.  *)
(***************************************************************************)
ConcurrentTexts ==
    {<<" ">>, <<"a", " ", "a", " ", "a", ",", " ", "a", " ", "a", " ", "a">>}
ConcurrentThresholds == {DefaultThreshold, 80}
ConcurrentOutcomes == {[kind |-> "scores", hate |-> p] : p \in {70, 90}}

IdleHandler == [pc |-> "idle"]

\* Mutant of ThresholdInUse: the threshold is read from one place shared by
\* the handlers, which holds the threshold of the oldest request in flight.
ThresholdShared(handlers, r) ==
    LET busy == {q \in DOMAIN handlers : handlers[q].pc # "idle"}
    IN  handlers[CHOOSE q \in busy : \A o \in busy : q <= o].confidence_threshold

\* The local variable confidence_threshold of handler r (line 501), which
\* the loop passes to analyze_clause_for_hate_speech and the summary
\* reports.
ThresholdInUse(handlers, r) == handlers[r].confidence_threshold

InitConcurrent ==
    /\ services_loaded = TRUE
    /\ in_flight = [r \in 1..MaxRequests |-> IdleHandler]
    /\ hash_order = <<>>
    /\ runs = <<>>
    /\ database = EmptyDatabase
    /\ db_requests = <<>>
    /\ endpoint = "none"
    /\ confidence_threshold = 0
    /\ outcomes = <<>>
    /\ calls = <<>>
    /\ http_response = NoHttpResponse
    /\ input_text = <<>>
    /\ sentences = <<>>
    /\ clauses = <<>>
    /\ original_text = <<>>
    /\ text_span = <<>>
    /\ located = NoResult
    /\ response = NoResponse
    /\ bias_spans = <<>>
    /\ total_clauses = 0
    /\ hate_speech_count = 0
    /\ summary = NoSummary
    /\ pc = "serving"

concurrentUnchanged ==
    <<services_loaded, hash_order, runs, dbVars, endpoint, confidence_threshold, outcomes,
      calls, http_response, original_text, locateVars, parseVars, segmentVars,
      summaryVars, pc>>

\* Lines 489-506: the request arrives; the handler trims the text, rejects
\* a blank one, reads the threshold and splits the text into clauses.
Receive(r) ==
    /\ in_flight[r].pc = "idle"
    /\ \E text \in ConcurrentTexts, threshold \in ConcurrentThresholds :
         in_flight' = [in_flight EXCEPT ![r] =
             IF ~services_loaded
             THEN [pc |-> "done", text |-> text, confidence_threshold |-> threshold,
                   clauses |-> <<>>, results |-> <<>>, hate_speech_clauses |-> <<>>,
                   response |-> HttpError(500, "Hate speech model not initialized", "")]
             ELSE IF Strip(text) = <<>>
             THEN [pc |-> "done", text |-> text, confidence_threshold |-> threshold,
                   clauses |-> <<>>, results |-> <<>>, hate_speech_clauses |-> <<>>,
                   response |-> HttpError(500, "Hate speech analysis failed",
                                          "Text cannot be empty")]
             ELSE [pc |-> "loop", text |-> text, confidence_threshold |-> threshold,
                   clauses |-> ClausesToAnalyze(Strip(text),
                                                SentTokenize(Strip(text), {})),
                   results |-> <<>>, hate_speech_clauses |-> <<>>,
                   response |-> NoHttpResponse]]
    /\ UNCHANGED concurrentUnchanged

\* Lines 508-518: one iteration of the loop over the clauses.
ClassifyNext(r) ==
    /\ in_flight[r].pc = "loop"
    /\ Len(in_flight[r].results) < Len(in_flight[r].clauses)
    /\ \E outcome \in ConcurrentOutcomes :
         \E analysis \in {AnalyzeClause(services_loaded,
                                        in_flight[r].clauses[Len(in_flight[r].results) + 1],
                                        ThresholdInUse(in_flight, r), outcome)} :
             in_flight' = [in_flight EXCEPT
                 ![r].results = Append(@, outcome),
                 ![r].hate_speech_clauses =
                     IF analysis.is_hate_speech
                     THEN Append(@, [text |-> analysis.clause,
                                     confidence |-> analysis.confidence,
                                     justification |-> analysis.justification])
                     ELSE @]
    /\ UNCHANGED concurrentUnchanged

\* Lines 519-541: the summary and the response.
Respond(r) ==
    /\ in_flight[r].pc = "loop"
    /\ Len(in_flight[r].results) = Len(in_flight[r].clauses)
    /\ in_flight' = [in_flight EXCEPT
           ![r].pc = "done",
           ![r].response =
               HttpOk([hate_speech_detected |-> Len(in_flight[r].hate_speech_clauses) > 0,
                       hate_speech_clauses |-> in_flight[r].hate_speech_clauses,
                       summary |-> HateSummary(Len(in_flight[r].clauses),
                                               Len(in_flight[r].hate_speech_clauses),
                                               ThresholdInUse(in_flight, r))])]
    /\ UNCHANGED concurrentUnchanged

NextConcurrent ==
    \E r \in 1..MaxRequests : Receive(r) \/ ClassifyNext(r) \/ Respond(r)

SpecConcurrent == InitConcurrent /\ [][NextConcurrent]_vars

(***************************************************************************)
(* SpecRerun: the pipeline run twice on one request, the external models   *)
(* (sentence tokenizer, classifier, Claude) answering the same both times. *)
(* The order in which list(set(...)) of _generate_summary lists the        *)
(* categories is fixed by the string hashes of the interpreter process,    *)
(* which are drawn anew at every start of the server (hash_order); the     *)
(* server may be restarted between the runs.                               *)
(***************************************************************************)
RerunTexts ==
    {<<"a">>, <<"a", " ", "a", " ", "a", ",", " ", "a", " ", "a", " ", "a">>}
RerunCategories == {"Age", "Other"}

\* list(set(categories)) in a process whose hashes order the categories as
\* order does.
ListOfSet(categories, order) ==
    SelectSeq(order, LAMBDA c : c \in categories)

\* One run of the pipeline: what the caller gets, and the units analyzed.
RunOutput(route, text, answers, order) ==
    IF route = "/analyze"
    THEN [response |->
              AnalyzeTextForBias(TRUE, text, answers[1],
                  ListOfSet(IF answers[1].kind = "raise" THEN {}
                            ELSE CategoriesOf(ParseResponse(answers[1], Strip(text))),
                            order)).response,
          units |-> <<>>]
    ELSE [response |->
              AnalyzeHateSpeech(TRUE, text, DefaultThreshold,
                                SentTokenize(Strip(text), {}), answers).response,
          units |-> ClausesToAnalyze(Strip(text), SentTokenize(Strip(text), {}))]

InitRerun ==
    /\ services_loaded = TRUE
    /\ hash_order \in Orderings(RerunCategories)
    /\ runs = <<>>
    /\ in_flight = <<>>
    /\ database = EmptyDatabase
    /\ db_requests = <<>>
    /\ endpoint \in {"/analyze", "/analyze-hate-speech"}
    /\ input_text \in RerunTexts
    /\ confidence_threshold = DefaultThreshold
    /\ IF endpoint = "/analyze"
       THEN outcomes \in {<<claude>> : claude \in ClaudeOutcomes}
       ELSE outcomes \in [1..Len(ClausesToAnalyze(Strip(input_text),
                                     SentTokenize(Strip(input_text), {})))
                             -> ClassifierOutcomes]
    /\ calls = <<>>
    /\ http_response = NoHttpResponse
    /\ sentences = <<>>
    /\ clauses = <<>>
    /\ original_text = <<>>
    /\ text_span = <<>>
    /\ located = NoResult
    /\ response = NoResponse
    /\ bias_spans = <<>>
    /\ total_clauses = 0
    /\ hate_speech_count = 0
    /\ summary = NoSummary
    /\ pc = "serving"

rerunUnchanged ==
    <<services_loaded, in_flight, dbVars, endpoint, input_text, confidence_threshold,
      outcomes, calls, http_response, sentences, clauses, original_text,
      locateVars, parseVars, summaryVars, pc>>

\* The request is sent and answered.
RunPipeline ==
    /\ Len(runs) < 2
    /\ runs' = Append(runs, RunOutput(endpoint, input_text, outcomes, hash_order))
    /\ UNCHANGED hash_order
    /\ UNCHANGED rerunUnchanged

\* The server is stopped and started again: a new interpreter, with new
\* string hashes.
RestartProcess ==
    /\ Len(runs) = 1
    /\ hash_order' \in Orderings(RerunCategories)
    /\ UNCHANGED runs
    /\ UNCHANGED rerunUnchanged

NextRerun == RunPipeline \/ RestartProcess

SpecRerun == InitRerun /\ [][NextRerun]_vars

(***************************************************************************)
(* Accounts and saved analyses: signup, save_analysis, delete_analysis.    *)
(* Every handler opens its own connection (get_db_connection), so each     *)
(* request is one PostgreSQL transaction at the default isolation level    *)
(* READ COMMITTED: a statement sees the rows committed before it starts,   *)
(* an INSERT that conflicts with an uncommitted row of the same UNIQUE     *)
(* key waits for that transaction, and so does a DELETE of a row another   *)
(* transaction has deleted.  The statements of the handlers interleave.    *)
(* None stands for 0 (no id, no token).  The token issued with user id i   *)
(* is written i: secrets.token_urlsafe(32) values are taken to be          *)
(* distinct, and token 0 is one that was never issued.                     *)
(***************************************************************************)
Handlers == {"h1", "h2"}
DbEmails == {"x@e", "y@e"}
RequestTokens == 0..MaxUserIds
RequestedIds == 1..MaxAnalysisIds

AuthResponse(success, message, user_id, token) ==
    [success |-> success, message |-> message, user_id |-> user_id, token |-> token]
NoAuthResponse == AuthResponse(FALSE, "pending", 0, 0)

\* The message of the handler's except clause.
FailureMessage(kind) ==
    IF kind = "signup" THEN "Database connection failed - signup unavailable"
    ELSE IF kind = "save" THEN "Database connection failed - save unavailable"
    ELSE "Database connection failed - deletion unavailable"

IdleDb ==
    [pc |-> "idle", kind |-> "none", email |-> "", token |-> 0, analysis_id |-> 0,
     user_id |-> 0, pending |-> {}, response |-> NoAuthResponse]

\* SELECT id FROM users WHERE email = %s
UsersWithEmail(users, email) == {u \in users : u.email = email}

\* What the database does on a handler's first access: it answers, or
\* get_db_connection or the statement raises.
DbOutcomes == {"answers", "raises"}

\* The rows of SELECT id, email, name FROM users WHERE token = %s.
UsersWithToken(users, token) == {u \in users : u.token = token}

\* get_user_from_token: the set holds the row fetchone returns, or is
\* empty for None.  When the connection or the SELECT raises, the except
\* clause (lines 198-200) returns None as well.
get_user_from_token(users, token, outcome) ==
    IF outcome = "raises" THEN {} ELSE UsersWithToken(users, token)

\* Mutant of UniqueViolation: the email column has no UNIQUE constraint.
NoUniqueConstraint(users, email) == FALSE

\* email VARCHAR(255) UNIQUE NOT NULL: the INSERT of a row whose email is
\* already in the table raises.
UniqueViolation(users, email) == \E u \in users : u.email = email

\* Mutant of AnalysisOwnedBy: the ownership check selects by id only.
AnalysisWithId(analyses, analysis_id, user_id) ==
    {a \in analyses : a.id = analysis_id}

\* SELECT id FROM analyses WHERE id = %s AND user_id = %s
AnalysisOwnedBy(analyses, analysis_id, user_id) ==
    {a \in analyses : a.id = analysis_id /\ a.user_id = user_id}

\* Another transaction holds an uncommitted users row with this email.
InsertingEmail(handlers, h, email) ==
    \E o \in Handlers \ {h} :
        /\ handlers[o].kind = "signup"
        /\ handlers[o].pc = "commit"
        /\ handlers[o].email = email

\* Another transaction has deleted this analyses row and not yet committed.
DeletingRow(handlers, h, analysis_id) ==
    \E o \in Handlers \ {h} :
        /\ handlers[o].kind = "delete"
        /\ handlers[o].pc = "commit"
        /\ \E a \in handlers[o].pending : a.id = analysis_id

\* The handlers of the endpoint that have not yet drawn their id from the
\* SERIAL sequence.
AboutToInsert(handlers, kind) ==
    {o \in Handlers : handlers[o].kind = kind /\ handlers[o].pc = "insert"}

InitAccounts ==
    /\ database = EmptyDatabase
    /\ db_requests = [h \in Handlers |-> IdleDb]
    /\ services_loaded = TRUE
    /\ in_flight = <<>>
    /\ hash_order = <<>>
    /\ runs = <<>>
    /\ endpoint = "none"
    /\ confidence_threshold = 0
    /\ outcomes = <<>>
    /\ calls = <<>>
    /\ http_response = NoHttpResponse
    /\ input_text = <<>>
    /\ sentences = <<>>
    /\ clauses = <<>>
    /\ original_text = <<>>
    /\ text_span = <<>>
    /\ located = NoResult
    /\ response = NoResponse
    /\ bias_spans = <<>>
    /\ total_clauses = 0
    /\ hate_speech_count = 0
    /\ summary = NoSummary
    /\ pc = "serving"

accountsUnchanged ==
    <<services_loaded, in_flight, hash_order, runs, endpoint, confidence_threshold,
      outcomes, calls, http_response, original_text, locateVars, parseVars,
      segmentVars, summaryVars, pc>>

\* signup, lines 357-367 and 390-392: the request arrives and the handler
\* looks the email up; when the connection or the SELECT raises, the
\* except clause answers.
SignupCheck(h) ==
    /\ db_requests[h].pc = "idle"
    /\ \E email \in DbEmails, outcome \in DbOutcomes :
         /\ (outcome = "answers" /\ UsersWithEmail(database.users, email) = {})
                => database.users_id_seq
                       + Cardinality(AboutToInsert(db_requests, "signup")) < MaxUserIds
         /\ db_requests' = [db_requests EXCEPT ![h] =
             IF outcome = "raises"
             THEN [IdleDb EXCEPT !.pc = "done", !.kind = "signup", !.email = email,
                                 !.response = AuthResponse(FALSE,
                                                           FailureMessage("signup"),
                                                           0, 0)]
             ELSE IF UsersWithEmail(database.users, email) # {}
             THEN [IdleDb EXCEPT !.pc = "done", !.kind = "signup", !.email = email,
                                 !.response = AuthResponse(FALSE, "User already exists",
                                                           0, 0)]
             ELSE [IdleDb EXCEPT !.pc = "insert", !.kind = "signup",
                                 !.email = email]]
    /\ UNCHANGED <<database, accountsUnchanged>>

\* signup, lines 369-378: INSERT INTO users ... RETURNING id.  The id is
\* drawn from the sequence whether or not the row can be inserted.
SignupInsert(h) ==
    /\ db_requests[h].pc = "insert"
    /\ db_requests[h].kind = "signup"
    /\ ~InsertingEmail(db_requests, h, db_requests[h].email)
    /\ database' = [database EXCEPT !.users_id_seq = @ + 1]
    /\ db_requests' = [db_requests EXCEPT ![h] =
           IF UniqueViolation(database.users, db_requests[h].email)
           THEN [@ EXCEPT !.pc = "done",
                          !.response = AuthResponse(FALSE, FailureMessage("signup"),
                                                    0, 0)]
           ELSE [@ EXCEPT !.pc = "commit",
                          !.pending = {[id |-> database.users_id_seq + 1,
                                        email |-> db_requests[h].email,
                                        token |-> database.users_id_seq + 1]}]]
    /\ UNCHANGED accountsUnchanged

\* signup, lines 379-388: conn.commit() and the response.
SignupCommit(h) ==
    /\ db_requests[h].pc = "commit"
    /\ db_requests[h].kind = "signup"
    /\ database' = [database EXCEPT !.users = @ \cup db_requests[h].pending]
    /\ \E row \in db_requests[h].pending :
         db_requests' = [db_requests EXCEPT ![h] =
             [@ EXCEPT !.pc = "done", !.pending = {},
                       !.response = AuthResponse(TRUE, "User created successfully",
                                                 row.id, row.token)]]
    /\ UNCHANGED accountsUnchanged

\* save_analysis, lines 553-557: the request arrives and the token is
\* looked up.
SaveAuth(h) ==
    /\ db_requests[h].pc = "idle"
    /\ \E token \in RequestTokens, outcome \in DbOutcomes :
         /\ get_user_from_token(database.users, token, outcome) # {}
                => database.analyses_id_seq
                       + Cardinality(AboutToInsert(db_requests, "save")) < MaxAnalysisIds
         /\ db_requests' = [db_requests EXCEPT ![h] =
             IF get_user_from_token(database.users, token, outcome) = {}
             THEN [IdleDb EXCEPT !.pc = "done", !.kind = "save", !.token = token,
                                 !.response = AuthResponse(FALSE, "Invalid token", 0, 0)]
             ELSE [IdleDb EXCEPT !.pc = "insert", !.kind = "save", !.token = token,
                                 !.user_id =
                                     (CHOOSE u \in get_user_from_token(database.users,
                                                                       token, outcome) : TRUE).id]]
    /\ UNCHANGED <<database, accountsUnchanged>>

\* save_analysis, lines 559-567: INSERT INTO analyses ... RETURNING id.
SaveInsert(h) ==
    /\ db_requests[h].pc = "insert"
    /\ db_requests[h].kind = "save"
    /\ database' = [database EXCEPT !.analyses_id_seq = @ + 1]
    /\ db_requests' = [db_requests EXCEPT ![h] =
           [@ EXCEPT !.pc = "commit",
                     !.pending = {[id |-> database.analyses_id_seq + 1,
                                   user_id |-> db_requests[h].user_id]}]]
    /\ UNCHANGED accountsUnchanged

\* save_analysis, lines 568-576: conn.commit() and the response, whose
\* user_id field carries the id of the analysis.
SaveCommit(h) ==
    /\ db_requests[h].pc = "commit"
    /\ db_requests[h].kind = "save"
    /\ database' = [database EXCEPT !.analyses = @ \cup db_requests[h].pending]
    /\ \E row \in db_requests[h].pending :
         db_requests' = [db_requests EXCEPT ![h] =
             [@ EXCEPT !.pc = "done", !.pending = {},
                       !.response = AuthResponse(TRUE, "Analysis saved successfully",
                                                 row.id, 0)]]
    /\ UNCHANGED accountsUnchanged

\* delete_analysis, lines 628-632: the request arrives and the token is
\* looked up.
DeleteAuth(h) ==
    /\ db_requests[h].pc = "idle"
    /\ \E token \in RequestTokens, analysis_id \in RequestedIds,
            outcome \in DbOutcomes :
         db_requests' = [db_requests EXCEPT ![h] =
             IF get_user_from_token(database.users, token, outcome) = {}
             THEN [IdleDb EXCEPT !.pc = "done", !.kind = "delete", !.token = token,
                                 !.analysis_id = analysis_id,
                                 !.response = AuthResponse(FALSE, "Invalid token", 0, 0)]
             ELSE [IdleDb EXCEPT !.pc = "check", !.kind = "delete", !.token = token,
                                 !.analysis_id = analysis_id,
                                 !.user_id =
                                     (CHOOSE u \in get_user_from_token(database.users,
                                                                       token, outcome) : TRUE).id]]
    /\ UNCHANGED <<database, accountsUnchanged>>

\* delete_analysis, lines 634-646: the ownership check.
DeleteCheck(h) ==
    /\ db_requests[h].pc = "check"
    /\ db_requests' = [db_requests EXCEPT ![h] =
           IF AnalysisOwnedBy(database.analyses, db_requests[h].analysis_id,
                              db_requests[h].user_id) = {}
           THEN [@ EXCEPT !.pc = "done",
                          !.response = AuthResponse(FALSE,
                              "Analysis not found or not owned by user", 0, 0)]
           ELSE [@ EXCEPT !.pc = "delete"]]
    /\ UNCHANGED <<database, accountsUnchanged>>

\* delete_analysis, lines 648-649: DELETE FROM analyses WHERE id = %s.
DeleteRow(h) ==
    /\ db_requests[h].pc = "delete"
    /\ ~DeletingRow(db_requests, h, db_requests[h].analysis_id)
    /\ db_requests' = [db_requests EXCEPT ![h] =
           [@ EXCEPT !.pc = "commit",
                     !.pending = {a \in database.analyses :
                                     a.id = db_requests[h].analysis_id}]]
    /\ UNCHANGED <<database, accountsUnchanged>>

\* delete_analysis, lines 650-654: conn.commit() and the response.
DeleteCommit(h) ==
    /\ db_requests[h].pc = "commit"
    /\ db_requests[h].kind = "delete"
    /\ database' = [database EXCEPT !.analyses = @ \ db_requests[h].pending]
    /\ db_requests' = [db_requests EXCEPT ![h] =
           [@ EXCEPT !.pc = "done", !.pending = {},
                     !.response = AuthResponse(TRUE, "Analysis deleted successfully",
                                               0, 0)]]
    /\ UNCHANGED accountsUnchanged

\* The except clauses of the three handlers (lines 390-392, 578-580,
\* 656-658): get_db_connection or a statement raises; the transaction is
\* not committed and the response says so.
DbFailure(h) ==
    /\ db_requests[h].pc \in {"insert", "check", "delete", "commit"}
    /\ db_requests' = [db_requests EXCEPT ![h] =
           [@ EXCEPT !.pc = "done", !.pending = {},
                     !.response = AuthResponse(FALSE,
                                               FailureMessage(db_requests[h].kind),
                                               0, 0)]]
    /\ UNCHANGED <<database, accountsUnchanged>>

\* The response has been sent.
DeliverResponse(h) ==
    /\ db_requests[h].pc = "done"
    /\ db_requests' = [db_requests EXCEPT ![h] = IdleDb]
    /\ UNCHANGED <<database, accountsUnchanged>>

NextAccounts ==
    \E h \in Handlers :
        \/ SignupCheck(h) \/ SignupInsert(h) \/ SignupCommit(h)
        \/ SaveAuth(h) \/ SaveInsert(h) \/ SaveCommit(h)
        \/ DeleteAuth(h) \/ DeleteCheck(h) \/ DeleteRow(h) \/ DeleteCommit(h)
        \/ DbFailure(h) \/ DeliverResponse(h)

SpecAccounts == InitAccounts /\ [][NextAccounts]_vars

(***************************************************************************)
(* Properties of _find_text_span, stated without the search operators.     *)
(***************************************************************************)
Returned == pc = "returned"

\* Offsets at which the phrase occurs verbatim in the document.
ExactOffsets == {i \in 0..Len(original_text) :
                    OccursAt(original_text, text_span, i)}

\* Offsets (in the lower-cased document) of the lower-cased phrase.
IcaseOffsets == {i \in 0..Len(Lower(original_text)) :
                    OccursAt(Lower(original_text), Lower(text_span), i)}

\* The word tokens of the lower-cased phrase and document.
SpanTokens == WordMatches(Lower(text_span))
DocTokens == WordMatches(Lower(original_text))

\* Offsets of the document tokens equal to the phrase's first token.
AnchorOffsets ==
    IF SpanTokens = <<>> THEN {}
    ELSE {DocTokens[k].start : k \in {n \in 1..Len(DocTokens) :
                                        DocTokens[n].word = SpanTokens[1].word}}

\* Document offsets where a common run of the lower-cased document d and
\* the lower-cased phrase s reaches the length n.
RunOffsetsIn(d, s, n) ==
    {i \in 0..(Len(d) - 1) :
        \E j \in 0..(Len(s) - 1) : MatchLength(d, s, i, j, 0) >= n}
RunOffsets(n) == RunOffsetsIn(Lower(original_text), Lower(text_span), n)

\* The greatest n for which some common run reaches the length n.
LongestRunIn(d, s) ==
    LET lens == {n \in 0..Len(s) : n = 0 \/ RunOffsetsIn(d, s, n) # {}}
    IN  CHOOSE n \in lens : \A m \in lens : m <= n
LongestRun == LongestRunIn(Lower(original_text), Lower(text_span))

Least(S) == CHOOSE i \in S : \A j \in S : i <= j

\* C1: a non-empty phrase that occurs verbatim in the document is located at
\* its first exact occurrence: start is the least offset of an occurrence,
\* end = start + len(phrase) and document[start:end] == phrase.
Thm_C1 ==
    (Returned /\ text_span # <<>> /\ ExactOffsets # {}) =>
        /\ located.start = Least(ExactOffsets)
        /\ located.end = located.start + Len(text_span)
        /\ Slice(original_text, located.start, located.end) = text_span

\* The phrase occurs verbatim more than once and the call has returned.
Witness_C1 ==
    /\ Returned /\ text_span # <<>>
    /\ Cardinality(ExactOffsets) >= 2
    /\ located.start < Len(original_text) - Len(text_span)

\* C2: every located result (start # -1), whichever strategy produced it,
\* satisfies 0 <= start <= end <= len(document).
CE_C2 ==
    (Returned /\ located.start # -1) =>
        /\ 0 <= located.start
        /\ located.start <= located.end
        /\ located.end <= Len(original_text)

\* C4: a result of the fuzzy fallback spans at least
\* max(4, len(phrase) // 2) characters (a shorter longest common substring
\* gives NOT_FOUND).
CE_C4 ==
    (Returned /\ located.strategy = "fuzzy") =>
        located.end - located.start >= Max(4, Len(text_span) \div 2)

\* C5: the strategies are applied in strict priority order and the first
\* that succeeds decides: exact whenever an exact occurrence exists, else
\* case-insensitive whenever a case-insensitive occurrence exists, else
\* token-anchored whenever the phrase's first token equals a document token,
\* and fuzzy or NOT_FOUND only when none of these applies.
Thm_C5 ==
    (Returned /\ text_span # <<>> /\ original_text # <<>>) =>
        /\ (located.strategy = "exact") <=> (ExactOffsets # {})
        /\ (located.strategy = "icase") <=>
               (ExactOffsets = {} /\ IcaseOffsets # {})
        /\ (located.strategy = "token") <=>
               (ExactOffsets = {} /\ IcaseOffsets = {} /\ AnchorOffsets # {})
        /\ (located.strategy \in {"fuzzy", "none"}) <=>
               (ExactOffsets = {} /\ IcaseOffsets = {} /\ AnchorOffsets = {})

\* The exact strategy decided although a case-insensitive occurrence starts
\* earlier in the document than the exact one.
Witness_C5 ==
    /\ Returned
    /\ located.strategy = "exact"
    /\ \E i \in IcaseOffsets : i < located.start

\* C6 (as claimed): within each strategy the returned start is the smallest
\* offset at which the strategy's acceptance criterion is satisfied; for the
\* fuzzy fallback, the smallest offset of a common substring that meets the
\* length threshold.
CE_C6 ==
    Returned =>
        /\ located.strategy = "icase" => located.start = Least(IcaseOffsets)
        /\ located.strategy = "token" => located.start = Least(AnchorOffsets)
        /\ located.strategy = "fuzzy" =>
               located.start = Least(RunOffsets(FuzzyThreshold(text_span)))

\* C6 (amended): the case-insensitive and token-anchored strategies return
\* the smallest offset (in the lower-cased document) satisfying their
\* criterion; the fuzzy fallback returns the smallest offset at which a
\* common substring of maximal length starts, with that maximal length.
Thm_C6 ==
    Returned =>
        /\ located.strategy = "icase" => located.start = Least(IcaseOffsets)
        /\ located.strategy = "token" => located.start = Least(AnchorOffsets)
        /\ located.strategy = "fuzzy" =>
               /\ located.end - located.start = LongestRun
               /\ LongestRun > 0 => located.start = Least(RunOffsets(LongestRun))
               /\ LongestRun = 0 => located.start = 0

\* A fuzzy result that starts later than an earlier common substring which
\* already meets the threshold.
Witness_C6 ==
    /\ Returned
    /\ located.strategy = "fuzzy"
    /\ \E i \in RunOffsets(FuzzyThreshold(text_span)) : i < located.start

(***************************************************************************)
(* Properties of _parse_response.                                          *)
(***************************************************************************)
\* The document text under the range of a BiasSpan.
Highlighted(span) == Slice(original_text, span.start_index, span.end_index)

Emitted == {bias_spans[k] : k \in 1..Len(bias_spans)}

\* C3: every emitted BiasSpan has a non-empty range: document[start:end]
\* is a non-empty string and the range is never the sentinel (-1, -1); a
\* phrase that cannot be located is dropped.
CE_C3 ==
    Returned =>
        \A span \in Emitted :
            /\ span.start_index # -1
            /\ Highlighted(span) # <<>>

\* C7: the label of every emitted BiasSpan agrees with its highlighted
\* range ignoring case and surrounding whitespace (checked here on the
\* spans whose range is a non-empty part of the document).
CE_C7 ==
    Returned =>
        \A span \in Emitted :
            (0 <= span.start_index /\ span.start_index < span.end_index
                /\ span.end_index <= Len(original_text)) =>
                Lower(Strip(Highlighted(span))) = Lower(Strip(span.text))

(***************************************************************************)
(* Properties of the hate-speech pipeline.                                 *)
(***************************************************************************)
\* Offsets (1-based) at which a whitespace-delimited token of s starts.
TokenStarts(s) ==
    {p \in 1..Len(s) : ~IsSpace(s[p]) /\ (p = 1 \/ IsSpace(s[p - 1]))}

\* C8: for every input text that is non-empty after trimming, the units
\* the pipeline analyzes are a non-empty sequence, and either every unit
\* is non-empty with at least 3 whitespace-delimited tokens or the
\* sequence is the single unit equal to the whole trimmed input.
Thm_C8 ==
    (pc # "call" /\ Strip(input_text) # <<>>) =>
        /\ pc = "segmented"
        /\ clauses # <<>>
        /\ \/ \A k \in 1..Len(clauses) :
                  clauses[k] # <<>> /\ Cardinality(TokenStarts(clauses[k])) >= 3
           \/ clauses = <<Strip(input_text)>>

\* The fallback was taken for a text of at least 3 tokens none of whose
\* fragments has 3 tokens.
Witness_C8 ==
    /\ pc = "segmented"
    /\ split_text_into_clauses(sentences) = <<>>
    /\ Cardinality(TokenStarts(Strip(input_text))) >= 3
    /\ clauses = <<Strip(input_text)>>

\* C9: for every total >= 1 and flagged count in 0..total, risk_level is
\* High iff flagged > total / 2, Medium iff 0 < flagged <= total / 2 and
\* Low iff flagged = 0; so 5 of 10 is Medium, 6 of 10 High, 1 of 2 Medium.
Thm_C9 ==
    pc = "summarized" =>
        /\ summary.risk_level = "High" <=> 2 * hate_speech_count > total_clauses
        /\ summary.risk_level = "Medium" <=>
               (0 < hate_speech_count /\ 2 * hate_speech_count <= total_clauses)
        /\ summary.risk_level = "Low" <=> hate_speech_count = 0
        /\ (total_clauses = 10 /\ hate_speech_count = 5) =>
               summary.risk_level = "Medium"
        /\ (total_clauses = 10 /\ hate_speech_count = 6) =>
               summary.risk_level = "High"
        /\ (total_clauses = 2 /\ hate_speech_count = 1) =>
               summary.risk_level = "Medium"

\* Exactly half of ten clauses are flagged and the summary is computed.
Witness_C9 ==
    /\ pc = "summarized"
    /\ total_clauses = 10
    /\ hate_speech_count = 5
    /\ summary.risk_level = "Medium"

\* C10: a request to /analyze or /analyze-hate-speech whose text is empty or
\* only whitespace ends in an error response, and the handler makes no
\* segmentation, classifier or Claude call for it.
Thm_C10 ==
    (pc = "responded" /\ Strip(input_text) = <<>>) =>
        /\ http_response.status_code >= 400
        /\ calls = <<>>

\* A whitespace-only text posted to /analyze-hate-speech has been answered
\* with an error.
Witness_C10 ==
    /\ pc = "responded"
    /\ endpoint = "/analyze-hate-speech"
    /\ input_text = <<" ">>
    /\ http_response.status_code >= 400
    /\ calls = <<>>

(***************************************************************************)
(* Properties of failure handling in the endpoints.                        *)
(***************************************************************************)
Responded == pc = "responded"

\* The request could not be analyzed: Claude's output was not parseable, or
\* the classifier raised on every clause.
CouldNotAnalyze ==
    \/ /\ endpoint = "/analyze"
       /\ calls = <<"claude">>
       /\ CleanResponse(outcomes[1]).kind = "malformed"
    \/ /\ endpoint = "/analyze-hate-speech"
       /\ clauses # <<>>
       /\ \A k \in 1..Len(outcomes) : outcomes[k].kind = "raise"

\* The response to the same request when the analysis succeeds and finds
\* nothing: Claude reports no instance, the classifier scores every clause
\* as not hate speech.
NothingFound ==
    IF endpoint = "/analyze"
    THEN AnalyzeTextForBias(services_loaded, input_text,
                            [kind |-> "json", bias_instances |-> <<>>], <<>>).response
    ELSE AnalyzeHateSpeech(services_loaded, input_text, confidence_threshold,
                           sentences,
                           [k \in 1..Len(clauses) |->
                               [kind |-> "scores", hate |-> 0]]).response

\* C11: a request that could not be analyzed is answered with a structured
\* error, which differs from the response of an analysis that found nothing.
CE_C11 ==
    (Responded /\ CouldNotAnalyze) => http_response # NothingFound

\* A hate-speech request with a non-blank text has been answered.
HateAnalyzed ==
    /\ Responded
    /\ endpoint = "/analyze-hate-speech"
    /\ Strip(input_text) # <<>>

\* The clauses whose classification came back as hate speech with a score
\* at or above the request's threshold.
FlaggedUnits ==
    {k \in 1..Len(clauses) :
        /\ outcomes[k].kind = "scores"
        /\ outcomes[k].hate > 100 - outcomes[k].hate
        /\ outcomes[k].hate >= confidence_threshold}

\* C12: when the classifier raises on a clause, that clause gets the neutral
\* result (not flagged, confidence 0) and still counts in the total; the
\* classifier is still called on every clause, the others are flagged by
\* their own scores, and the request ends with a normal response.
Thm_C12 ==
    HateAnalyzed =>
        /\ http_response.status_code = 200
        /\ calls = <<"split_text_into_clauses">>
                       \o [k \in 1..Len(clauses) |-> "classifier"]
        /\ http_response.body.summary.total_clauses_analyzed = Len(clauses)
        /\ Len(http_response.body.hate_speech_clauses) = Cardinality(FlaggedUnits)
        /\ http_response.body.summary.hate_speech_clauses_found
               = Cardinality(FlaggedUnits)
        /\ \A k \in 1..Len(clauses) :
               outcomes[k].kind = "raise" =>
                   LET analysis == AnalyzeClause(services_loaded, clauses[k],
                                                 confidence_threshold, outcomes[k])
                   IN  ~analysis.is_hate_speech /\ analysis.confidence = 0

\* The classifier raised on the first of two clauses and the second one was
\* flagged.
Witness_C12 ==
    /\ HateAnalyzed
    /\ Len(clauses) = 2
    /\ outcomes[1].kind = "raise"
    /\ FlaggedUnits = {2}
    /\ http_response.status_code = 200
    /\ Len(http_response.body.hate_speech_clauses) = 1
    /\ http_response.body.summary.total_clauses_analyzed = 2

(***************************************************************************)
(* Properties of _parse_response on whole responses.                       *)
(***************************************************************************)
\* The reported instances that are well-formed objects whose phrase the
\* locator finds in the document.
LocatedInstances ==
    {k \in 1..Len(response.bias_instances) :
        /\ response.bias_instances[k].kind = "object"
        /\ FindTextSpan(original_text,
                        response.bias_instances[k].text_span).start # -1}

\* C13: an instance whose processing fails costs only its own finding: every
\* other instance of the response that is located still yields its BiasSpan.
CE_C13 ==
    (Returned /\ response.kind = "json") =>
        Len(bias_spans) = Cardinality(LocatedInstances)

(***************************************************************************)
(* Properties of the /analyze endpoint.                                    *)
(***************************************************************************)
\* A request to /analyze with a non-blank text has been answered, Claude
\* having been called.
BiasAnalyzed ==
    /\ Responded
    /\ endpoint = "/analyze"
    /\ calls = <<"claude">>

\* Claude replied, and what is left of the reply after the fence is removed
\* is not JSON.
Unparseable ==
    /\ outcomes[1].kind # "raise"
    /\ CleanResponse(outcomes[1]).kind = "malformed"

\* C14: a reply of Claude that is not parseable as JSON gives zero findings:
\* the request ends normally with an empty bias_spans list and risk level
\* Low, and no exception reaches the caller.
Thm_C14 ==
    (BiasAnalyzed /\ Unparseable) =>
        /\ http_response.status_code = 200
        /\ http_response.body.bias_spans = <<>>
        /\ http_response.body.summary.total_bias_instances = 0
        /\ http_response.body.summary.risk_level = "Low"

\* Claude's reply was not JSON and the request was answered normally.
Witness_C14 ==
    /\ BiasAnalyzed
    /\ outcomes[1].kind = "malformed"
    /\ http_response.status_code = 200
    /\ http_response.body.bias_spans = <<>>

\* C15: when the Claude request raises, the document gets an empty finding
\* set and no exception leaves analyze_text: the request is answered
\* normally.
CE_C15 ==
    (BiasAnalyzed /\ outcomes[1].kind = "raise") =>
        /\ http_response.status_code = 200
        /\ http_response.body.bias_spans = <<>>

\* The elements of a finite set of numbers in ascending order.
RECURSIVE Ascending(_)
Ascending(S) ==
    IF S = {} THEN <<>>
    ELSE LET least == CHOOSE x \in S : \A y \in S : x <= y
         IN  <<least>> \o Ascending(S \ {least})

\* The instances Claude reported in the request at hand, and the document
\* they were located in.
ReportedInstances ==
    IF outcomes[1].kind = "raise" \/ CleanResponse(outcomes[1]).kind # "json"
    THEN <<>>
    ELSE CleanResponse(outcomes[1]).bias_instances
AnalyzedText == Strip(input_text)

\* Every reported instance is a well-formed object.
AllWellFormed ==
    \A k \in 1..Len(ReportedInstances) : ReportedInstances[k].kind = "object"

\* The positions, in reply order, of the instances whose phrase is located.
KeptInstances ==
    Ascending({k \in 1..Len(ReportedInstances) :
                  /\ ReportedInstances[k].kind = "object"
                  /\ FindTextSpan(AnalyzedText,
                                  ReportedInstances[k].text_span).start # -1})

\* C16: the category of every emitted BiasSpan is one of the 11 categories
\* of the taxonomy or "Other": a reported category of the taxonomy is kept
\* unchanged, any other value, a missing category included, becomes "Other".
Thm_C16 ==
    (BiasAnalyzed /\ http_response.status_code = 200) =>
        LET spans == http_response.body.bias_spans
        IN  /\ \A j \in 1..Len(spans) :
                   spans[j].category \in bias_categories \cup {"Other"}
            /\ AllWellFormed =>
                   /\ Len(spans) = Len(KeptInstances)
                   /\ \A j \in 1..Len(spans) :
                          LET reported == ReportedInstances[KeptInstances[j]].category
                          IN  /\ reported \in bias_categories
                                     => spans[j].category = reported
                              /\ reported \notin bias_categories
                                     => spans[j].category = "Other"

\* Two findings were emitted: one keeps its taxonomy category, the other,
\* reported without a category, got "Other".
Witness_C16 ==
    /\ BiasAnalyzed
    /\ http_response.status_code = 200
    /\ Len(ReportedInstances) = 2
    /\ AllWellFormed
    /\ ReportedInstances[1].category = "Age"
    /\ ReportedInstances[2].category = ""
    /\ Len(http_response.body.bias_spans) = 2
    /\ http_response.body.bias_spans[1].category = "Age"
    /\ http_response.body.bias_spans[2].category = "Other"

(***************************************************************************)
(* Properties of the flagging decision and of the order of the results.    *)
(***************************************************************************)
\* C17: a clause is reported as flagged iff its hate-speech score is at or
\* above the request's confidence threshold, whatever the threshold (stated
\* on the requests in which the classifier scored every clause).
CE_C17 ==
    (HateAnalyzed /\ \A k \in 1..Len(clauses) : outcomes[k].kind = "scores") =>
        Len(http_response.body.hate_speech_clauses)
            = Cardinality({k \in 1..Len(clauses) :
                              outcomes[k].hate >= confidence_threshold})

\* C18: results keep the order of their inputs.  The flagged clauses are
\* the flagged units in segmentation order, and the BiasSpans are the
\* located instances in the order Claude reported them, nothing reordered.
Thm_C18 ==
    /\ HateAnalyzed =>
           LET flagged == Ascending(FlaggedUnits)
               reported == http_response.body.hate_speech_clauses
           IN  /\ Len(reported) = Len(flagged)
               /\ \A j \in 1..Len(reported) :
                      /\ reported[j].text = clauses[flagged[j]]
                      /\ reported[j].confidence = outcomes[flagged[j]].hate
    /\ (BiasAnalyzed /\ http_response.status_code = 200 /\ AllWellFormed) =>
           LET spans == http_response.body.bias_spans
           IN  /\ Len(spans) = Len(KeptInstances)
               /\ \A j \in 1..Len(spans) :
                      spans[j] = BiasSpan(AnalyzedText,
                                          ReportedInstances[KeptInstances[j]],
                                          FindTextSpan(AnalyzedText,
                                              ReportedInstances[KeptInstances[j]].text_span))

\* Two clauses were flagged with different confidences and are reported in
\* segmentation order.
Witness_C18 ==
    /\ HateAnalyzed
    /\ Len(clauses) = 2
    /\ FlaggedUnits = {1, 2}
    /\ outcomes[1].hate # outcomes[2].hate
    /\ Len(http_response.body.hate_speech_clauses) = 2
    /\ http_response.body.hate_speech_clauses[1].confidence = outcomes[1].hate
    /\ http_response.body.hate_speech_clauses[2].confidence = outcomes[2].hate

(***************************************************************************)
(* Properties of concurrent requests.                                      *)
(***************************************************************************)
\* The clauses of handler r classified so far that its own threshold flags.
OwnFlagged(r) ==
    {k \in 1..Len(in_flight[r].results) :
        /\ in_flight[r].results[k].hate > 100 - in_flight[r].results[k].hate
        /\ in_flight[r].results[k].hate >= in_flight[r].confidence_threshold}

\* C19: however the handlers of concurrent requests interleave, every
\* flagging decision of a request and its confidence_threshold_used come
\* from the threshold that request carried, and the shared globals are
\* left as they were.
Thm_C19 ==
    /\ services_loaded = TRUE
    /\ \A r \in DOMAIN in_flight :
           in_flight[r].pc # "idle" =>
               /\ Len(in_flight[r].hate_speech_clauses) = Cardinality(OwnFlagged(r))
               /\ \A j \in 1..Len(in_flight[r].hate_speech_clauses) :
                      in_flight[r].hate_speech_clauses[j].confidence
                          = in_flight[r].results[Ascending(OwnFlagged(r))[j]].hate
               /\ (in_flight[r].pc = "done" /\ in_flight[r].response.status_code = 200) =>
                      in_flight[r].response.body.summary.confidence_threshold_used
                          = in_flight[r].confidence_threshold

\* Two requests with different thresholds are both in the middle of their
\* loops; the same score was flagged for one and not for the other.
Witness_C19 ==
    /\ in_flight[1].pc = "loop"
    /\ in_flight[2].pc = "loop"
    /\ in_flight[1].confidence_threshold = 80
    /\ in_flight[2].confidence_threshold = DefaultThreshold
    /\ Len(in_flight[1].results) = 1
    /\ Len(in_flight[2].results) = 1
    /\ in_flight[1].results[1].hate = 70
    /\ in_flight[2].results[1].hate = 70
    /\ in_flight[1].hate_speech_clauses = <<>>
    /\ Len(in_flight[2].hate_speech_clauses) = 1

(***************************************************************************)
(* Properties of repeated runs.                                            *)
(***************************************************************************)
\* C20: two runs of the pipeline on the same text and configuration, with
\* the same answers of the external models, give the same output: the same
\* units, the same findings in the same order, and the same summary, the
\* order of categories_detected included.
CE_C20 ==
    Len(runs) = 2 => runs[1] = runs[2]

\* C21: in the summary of /analyze-hate-speech the percentage is
\* flagged / total * 100, with a non-zero divisor; the flagged count is
\* between 0 and the total, so the percentage is between 0 and 100; for a
\* total of 0 the expression gives 0 instead of dividing.
Thm_C21 ==
    /\ HateSummary(0, 0, confidence_threshold).hate_speech_percentage
           = Fraction(0, 1)
    /\ HateAnalyzed =>
           LET s == http_response.body.summary
               total == s.total_clauses_analyzed
               count == s.hate_speech_clauses_found
               pct == s.hate_speech_percentage
           IN  /\ total = Len(clauses)
               /\ count = Len(http_response.body.hate_speech_clauses)
               /\ 0 <= count /\ count <= total
               /\ pct.den > 0
               /\ pct.num * total = count * 100 * pct.den
               /\ 0 <= pct.num /\ pct.num <= 100 * pct.den

\* One of two clauses was flagged: the percentage is half of 100.
Witness_C21 ==
    /\ HateAnalyzed
    /\ http_response.status_code = 200
    /\ http_response.body.summary.total_clauses_analyzed = 2
    /\ http_response.body.summary.hate_speech_clauses_found = 1
    /\ http_response.body.summary.hate_speech_percentage = Fraction(100, 2)

\* The phrase is found neither verbatim nor ignoring case, has more than
\* one word token, and its first token is a word token of the document.
AnchoredCase ==
    /\ Returned
    /\ text_span # <<>> /\ original_text # <<>>
    /\ ExactOffsets = {} /\ IcaseOffsets = {}
    /\ Len(SpanTokens) > 1
    /\ AnchorOffsets # {}

\* The document tokens equal to the phrase's last token that start at or
\* after the end of the anchor token.
LastTokensAfterAnchor ==
    LET anchor == Least(AnchorOffsets)
        first == SpanTokens[1].word
        last == SpanTokens[Len(SpanTokens)].word
    IN  {k \in 1..Len(DocTokens) :
            /\ DocTokens[k].word = last
            /\ DocTokens[k].start >= anchor + Len(first)}

\* C22: in the anchored case the span starts at the first document token
\* equal to the phrase's first token and ends at the end of a whole
\* document token, after the anchor token, equal to the phrase's last token
\* (stated here for the documents in which such a token exists).
CE_C22 ==
    (AnchoredCase /\ LastTokensAfterAnchor # {}) =>
        /\ located.start = Least(AnchorOffsets)
        /\ \E k \in LastTokensAfterAnchor :
               located.end = DocTokens[k].start + Len(DocTokens[k].word)

\* The string s contains a match of the boundary pattern.
HasMatch(pattern, s) ==
    \E p \in 0..(Len(s) - 1) : MatchEnd(pattern, s, p) # -1

\* The fragments into which the sentence is split, before the filter on
\* the number of tokens.
FragmentsOf(sentence) == ClausesOfSentences(<<sentence>>)

\* Offsets of the sentence at which "and" directly follows a match of the
\* comma pattern.
AndAfterComma(sentence) ==
    {p \in 0..(Len(sentence) - 1) :
        /\ MatchEnd(clause_patterns[1], sentence, p) # -1
        /\ OccursAt(sentence, <<"a", "n", "d">>,
                    MatchEnd(clause_patterns[1], sentence, p))}

\* No boundary pattern matches anywhere in the string.
MatchFree(s) == \A j \in 1..Len(clause_patterns) : ~HasMatch(clause_patterns[j], s)

\* C23: the patterns are applied in list order, each to the whole working
\* set: a conjunction that directly follows a comma stays at the head of a
\* fragment ('a, and a' gives 'a' and 'and a'), and no fragment, kept or
\* filtered out, contains a match of any boundary pattern.  The sentences
\* are those of the trimmed text, so the texts that arrive trimmed cover
\* every list of sentences.
Thm_C23 ==
    (pc = "segmented" /\ input_text = Strip(input_text)) =>
        \A n \in 1..Len(sentences) :
            \A fragments \in {FragmentsOf(sentences[n])} :
                /\ \A k \in 1..Len(fragments) : MatchFree(fragments[k])
                /\ AndAfterComma(sentences[n]) # {} =>
                       \E k \in 1..Len(fragments) :
                           OccursAt(fragments[k], <<"a", "n", "d">>, 0)
                /\ sentences[n] = <<"a", ",", " ", "a", "n", "d", " ", "a">> =>
                       fragments = << <<"a">>, <<"a", "n", "d", " ", "a">> >>

\* The text 'a, and a' was segmented as one sentence.
Witness_C23 ==
    /\ pc = "segmented"
    /\ sentences = << <<"a", ",", " ", "a", "n", "d", " ", "a">> >>
    /\ AndAfterComma(sentences[1]) = {1}

\* C24: a request to /analyze or /analyze-hate-speech whose text is empty
\* after trimming is answered with status 400 and the detail
\* 'Text cannot be empty'.
CE_C24 ==
    (Responded /\ Strip(input_text) = <<>>) =>
        /\ http_response.status_code = 400
        /\ http_response.detail = "Text cannot be empty"

\* C25: in the summary of _generate_summary, with n the number of emitted
\* findings, total_bias_instances is n, risk_level is Low iff n = 0, Medium
\* iff n is 1 or 2 and High iff n >= 3, and overall_assessment is
\* 'No bias detected' iff n = 0.
Thm_C25 ==
    pc = "summarized" =>
        /\ summary.total_bias_instances = Len(bias_spans)
        /\ summary.risk_level = "Low" <=> Len(bias_spans) = 0
        /\ summary.risk_level = "Medium" <=> Len(bias_spans) \in {1, 2}
        /\ summary.risk_level = "High" <=> Len(bias_spans) >= 3
        /\ summary.overall_assessment = "No bias detected" <=> Len(bias_spans) = 0

\* Three findings of one category were emitted and summarized.
Witness_C25 ==
    /\ pc = "summarized"
    /\ Len(bias_spans) = 3
    /\ Cardinality(CategoriesOf(bias_spans)) = 1
    /\ summary.risk_level = "High"

\* The positions, in reply order, of the instances of the reply whose
\* phrase the locator finds in the document.
LocatedInReply ==
    Ascending({k \in 1..Len(response.bias_instances) :
                  FindTextSpan(original_text,
                               response.bias_instances[k].text_span).start # -1})

\* C26: for each located instance _parse_response records the offsets the
\* locator returned, and as label the document substring between them when
\* it equals the reported phrase after trimming and lower-casing both, and
\* the reported phrase unchanged otherwise.
Thm_C26 ==
    pc = "summarized" =>
        \A kept \in {LocatedInReply} :
            /\ Len(bias_spans) = Len(kept)
            /\ \A j \in 1..Len(kept) :
                   \A phrase \in {response.bias_instances[kept[j]].text_span} :
                       \A found \in {FindTextSpan(original_text, phrase)} :
                           \A part \in {Slice(original_text, found.start, found.end)} :
                               /\ bias_spans[j].start_index = found.start
                               /\ bias_spans[j].end_index = found.end
                               /\ Lower(Strip(part)) = Lower(Strip(phrase))
                                      => bias_spans[j].text = part
                               /\ Lower(Strip(part)) # Lower(Strip(phrase))
                                      => bias_spans[j].text = phrase

\* In the document 'a a' the phrase 'A' got the document's 'a' as label
\* and the phrase 'a b', located by its first word, kept its own text.
Witness_C26 ==
    /\ pc = "summarized"
    /\ original_text = <<"a", " ", "a">>
    /\ Len(bias_spans) = 2
    /\ response.bias_instances[1].text_span = <<"A">>
    /\ bias_spans[1].text = <<"a">>
    /\ bias_spans[1].start_index = 0 /\ bias_spans[1].end_index = 1
    /\ response.bias_instances[2].text_span = <<"a", " ", "b">>
    /\ bias_spans[2].text = <<"a", " ", "b">>
    /\ bias_spans[2].start_index = 0 /\ bias_spans[2].end_index = 3

(***************************************************************************)
(* Properties of the accounts and of the saved analyses.                   *)
(***************************************************************************)
\* The user a token identifies owns the row.
OwnedByToken(users, token, row) ==
    \E u \in users : u.token = token /\ u.id = row.user_id

\* Handler h finishes its request in this step.
Finishes(h) == db_requests[h].pc # "done" /\ db_requests'[h].pc = "done"

\* One step of the delete-analysis requests.
DeleteStep ==
    /\ \A row \in database.analyses \ database'.analyses :
           \E h \in Handlers :
               /\ db_requests[h].kind = "delete"
               /\ Finishes(h)
               /\ db_requests'[h].response.success
               /\ row.id = db_requests[h].analysis_id
               /\ OwnedByToken(database.users, db_requests[h].token, row)
    /\ \A h \in Handlers :
           /\ (db_requests[h].pc = "idle" /\ db_requests'[h].kind = "delete"
                   /\ UsersWithToken(database.users, db_requests'[h].token) = {})
                  => /\ db_requests'[h].pc = "done"
                     /\ ~db_requests'[h].response.success
                     /\ database' = database
           /\ (db_requests[h].pc = "check" /\ db_requests'[h].pc # "check"
                   /\ ~\E a \in database.analyses :
                          /\ a.id = db_requests[h].analysis_id
                          /\ OwnedByToken(database.users, db_requests[h].token, a))
                  => /\ db_requests'[h].pc = "done"
                     /\ ~db_requests'[h].response.success
                     /\ database' = database
           /\ (db_requests'[h].kind = "delete" /\ Finishes(h)
                   /\ ~db_requests'[h].response.success)
                  => database'.analyses = database.analyses

\* C27: whatever signup, save-analysis and delete-analysis requests of
\* several users interleave, a row leaves the analyses table only in the
\* commit of a delete-analysis request for that id whose token identifies
\* the row's owner; a request with a token that identifies no user, or for
\* an id that names no analysis of the token's user, ends with success
\* false, and no request that ends with success false changes the table.
Thm_C27 == [][DeleteStep]_vars

\* User 2 asked to delete analysis 1 of user 1 and was refused; the
\* analysis is still stored.
Witness_C27 ==
    \E h \in Handlers :
        /\ db_requests[h].kind = "delete"
        /\ db_requests[h].pc = "done"
        /\ db_requests[h].token = 2
        /\ db_requests[h].analysis_id = 1
        /\ db_requests[h].response.message = "Analysis not found or not owned by user"
        /\ [id |-> 1, user_id |-> 1] \in database.analyses
        /\ Cardinality(database.users) = 2

\* No two rows of the users table have the same email, and of the signups
\* in flight for one email at most one has inserted a row.
OneUserPerEmail ==
    /\ \A u1, u2 \in database.users : u1.email = u2.email => u1 = u2
    /\ \A h1, h2 \in Handlers :
           (/\ h1 # h2
            /\ db_requests[h1].kind = "signup" /\ db_requests[h2].kind = "signup"
            /\ db_requests[h1].email = db_requests[h2].email)
               => ~(/\ \/ db_requests[h1].pc = "commit"
                       \/ db_requests[h1].pc = "done" /\ db_requests[h1].response.success
                    /\ \/ db_requests[h2].pc = "commit"
                       \/ db_requests[h2].pc = "done" /\ db_requests[h2].response.success)

\* One step of the signup requests.
SignupStep ==
    /\ database.users \subseteq database'.users
    /\ \A row \in database'.users \ database.users :
           /\ UsersWithEmail(database.users, row.email) = {}
           /\ \E h \in Handlers :
                  /\ db_requests[h].kind = "signup"
                  /\ Finishes(h)
                  /\ db_requests'[h].response.success
                  /\ db_requests'[h].response.user_id = row.id
                  /\ db_requests[h].email = row.email
    /\ \A h \in Handlers :
           /\ (db_requests[h].pc = "idle" /\ db_requests'[h].kind = "signup"
                   /\ UsersWithEmail(database.users, db_requests'[h].email) # {})
                  => /\ db_requests'[h].pc = "done"
                     /\ ~db_requests'[h].response.success
                     /\ database' = database
           /\ (db_requests'[h].kind = "signup" /\ Finishes(h))
                  => IF db_requests'[h].response.success
                     THEN Cardinality(database'.users \ database.users) = 1
                     ELSE database'.users = database.users

\* C28: for every interleaving of signup requests the users table holds at
\* most one row per email: a signup for a registered email ends with
\* success false and leaves the table unchanged, and of two signups for one
\* new email that both pass the existence check at most one inserts a row
\* and ends with success true.
Thm_C28 == [][OneUserPerEmail' /\ SignupStep]_vars

\* Two signups for one new email both passed the existence check: one has
\* created the user and answered success, the other, which can only have
\* looked the email up before that commit, has its INSERT still to run.
Witness_C28 ==
    \E h1, h2 \in Handlers :
        /\ db_requests[h1].kind = "signup" /\ db_requests[h2].kind = "signup"
        /\ db_requests[h1].email = db_requests[h2].email
        /\ db_requests[h1].pc = "done" /\ db_requests[h1].response.success
        /\ db_requests[h2].pc = "insert"
        /\ Cardinality(UsersWithEmail(database.users, db_requests[h1].email)) = 1
====
